---- MODULE Spec2Model ----
(***************************************************************************)
(* Model of the agentburn trading engine.                                  *)
(*                                                                         *)
(* Groups of operations that share the module:                            *)
(*   - the strategy trade executor and the position store                  *)
(*     (server/strategy-trade-executor.ts, server/close-all-positions.ts), *)
(*     specifications Spec, SizingSpec, ReserveSpec;                       *)
(*   - the AI bot scheduler (server/ai-bot-scheduler.ts),                  *)
(*     specifications SchedSpec, CycleSpec;                                *)
(*   - the hivemind provider panel (circuit breaker and consensus),        *)
(*     specifications BreakerSpec, ConsensusSpec;                          *)
(*   - bundle detection and the token blacklist,                           *)
(*     specifications DetectSpec, BlacklistSpec;                           *)
(*   - the sell rule (server/multi-strategy.ts), specification SellSpec;   *)
(*   - the hivemind strategy store (server/hivemind-strategy.ts),          *)
(*     specification StrategySpec;                                         *)
(*   - the hivemind strategy generator (server/hivemind-strategy.ts),      *)
(*     specification GenSpec;                                              *)
(*   - the strategy evaluators (server/multi-strategy.ts),                 *)
(*     specifications MeanReversionSpec, MomentumSpec, GridSpec, AllSpec.  *)
(*                                                                         *)
(* Amounts of SOL are integers in units of 10^-5 SOL; a percentage of an   *)
(* amount is taken with floor division.                                    *)
(***************************************************************************)
EXTENDS Integers, Sequences, FiniteSets, TLC

\* ------------------------------------------------------------------ bounds

\* most buy orders one wallet submits in a behaviour
MaxTrades == 2
\* most monitored exits in a behaviour
MaxExits == 1

\* last minute of the clock
MaxTime == 7
\* most executeAITradingBot calls started in a behaviour
MaxStarts == 2
\* last calendar day
MaxDay == 2
\* rows written to the strategy table
MaxCommits == 2
\* hours of wall clock of the strategy store
MaxHours == 7

\* ------------------------------------------------------- program constants

\* a provider is disabled after 3 consecutive failures
FAILURE_LIMIT == 3
\* a disabled provider stays disabled for 5 minutes
COOLDOWN_MINUTES == 5

\* FEE_BUFFER floor: Math.max(0.03, ...)
FEE_BUFFER_MIN == 3000
\* FEE_BUFFER share of the portfolio: totalValueSOL * 0.05
FEE_BUFFER_PERCENT == 5
\* maxPositionSize = availableBalance * 0.15
MAX_POSITION_PERCENT == 15
\* tradeAmount < 0.01 is too small
MIN_TRADE == 1000
\* platform fee: 1% of the trade amount
PLATFORM_FEE_PERCENT == 1
\* trading pauses at a drawdown of 20% from the peak
DRAWDOWN_PAUSE_PERCENT == 20
\* trading resumes within 15% of the peak
DRAWDOWN_RESUME_PERCENT == 15

\* a saved strategy is valid for six hours
VALID_HOURS == 6
\* BOLLINGER_TOLERANCE = 0.15, in percent
BOLLINGER_TOLERANCE == 15
\* MIN_VALID_PRICE = 1e-9 SOL, prices being in units of 10^-9 SOL
MIN_VALID_PRICE == 1

\* ------------------------------------------------------------------ inputs

Projects == {"p1", "p2"}
\* the trending tokens a fetch may return, already filtered by volume
TrendingLists == {<<>>, <<"m1">>, <<"m1", "m2">>}
\* project.aiBotMaxDailyTrades
AiBotMaxDailyTrades == 1
\* project.aiBotBudgetPerTrade: 0.1 SOL
BudgetPerTrade == {10000}
\* analysis.suggestedBuyAmountSOL: none, or 0.3 SOL
SuggestedAmounts == {0, 30000}

\* tokenData.profile: absent, or its organicScore and qualityScore
Profiles ==
    {[present |-> FALSE, organicScore |-> 0, qualityScore |-> 0]} \cup
    {[present |-> TRUE, organicScore |-> sc[1], qualityScore |-> sc[2]] :
        sc \in {<<15, 20>>, <<35, 40>>, <<45, 60>>, <<60, 20>>}}
\* tokenData.txns.h24: buys and sells
Txns24h ==
    {[buys |-> t[1], sells |-> t[2]] :
        t \in {<<0, 0>>, <<95, 10>>, <<600, 600>>, <<1100, 100>>,
               <<10000, 8000>>}}
\* tokenData.liquidity.usd and tokenData.volume.h24, in USD
Markets ==
    {[liquidityUSD |-> m[1], volume24h |-> m[2]] :
        m \in {<<0, 2000000>>, <<50000, 2000000>>, <<200000, 2000000>>,
               <<10000, 50000>>}}
\* Date.now() of a detection, in ms
NowMs == {100000000}
\* tokenData.pairCreatedAt in ms: missing, exactly 24 hours before now, one
\* millisecond later
PairCreatedAts == {0, 13600000, 13600001}
\* tokenData.priceChange: h1 and h24, in percent
PriceChanges ==
    {[h1 |-> c[1], h24 |-> c[2]] :
        c \in {<<0, 0>>, <<60, 0>>, <<-60, 0>>, <<10, 150>>}}
\* the token data a detection may get
TokenDatas ==
    {[profile |-> pr, txns |-> tx, market |-> mk, pairCreatedAt |-> ca,
      priceChange |-> pc] :
        pr \in Profiles, tx \in Txns24h, mk \in Markets,
        ca \in PairCreatedAts, pc \in PriceChanges}

\* position.strategyProfitTarget and position.strategyStopLoss: not set, "0",
\* or a percentage
NotSet == [present |-> FALSE, value |-> 0]
ProfitTargets == {NotSet, [present |-> TRUE, value |-> 0],
                  [present |-> TRUE, value |-> 20]}
StopLosses == {NotSet, [present |-> TRUE, value |-> 0],
               [present |-> TRUE, value |-> 10]}
\* position.entryPriceSOL and currentPrice, in units of 0.00000001 SOL
EntryPrices == {0, 100}
CurrentPrices == {0, 80, 90, 91, 100, 120, 130}
\* token.rsi (absent, 25, 75) and token.priceChange1h
TokenSignals ==
    {[hasRsi |-> t[1], rsi |-> t[2], priceChange1h |-> t[3]] :
        t \in {<<FALSE, 0, 0>>, <<TRUE, 25, 0>>, <<TRUE, 75, 0>>,
               <<FALSE, 0, -10>>, <<TRUE, 75, -10>>}}

\* the mints the blacklist is asked about
ListedMints == {"m1", "m2", "m3"}

\* the AI providers, in priority order
Providers == {"deepseek", "groq", "gemini"}
\* the highest-priority providers, which a quick scan queries
QuickPanel == {"deepseek", "groq"}

Mints == {"m1", "m2"}
Strategies == {"MEAN_REVERSION", "MOMENTUM_BREAKOUT", "GRID_TRADING"}
\* strategies generateStrategyFromSentiment produces: a bullish and a
\* bearish market
GeneratedStrategies ==
    {[marketSentiment |-> "bullish", preferredMarketCap |-> "ultra-low",
      minConfidenceThreshold |-> 45, maxDailyTrades |-> 10,
      riskLevel |-> "aggressive"],
     [marketSentiment |-> "bearish", preferredMarketCap |-> "medium",
      minConfidenceThreshold |-> 75, maxDailyTrades |-> 2,
      riskLevel |-> "conservative"]}

\* the strategies whose signals are traded in the runs checked
TradedStrategies == {"MEAN_REVERSION", "GRID_TRADING"}
\* strategySignal.positionSizePercent
SizePercents == {5, 20}
\* wallet SOL balance when the bot starts: 0.05 SOL and 2 SOL
InitBalances == {5000, 200000}
\* mark-to-market value of the tokens the wallet holds: 0, 6, 6.2, 8 SOL
HoldingValues == {0, 600000, 620000, 800000}
\* holdings that make the wallet's 2 SOL a little over a tenth of the
\* portfolio: 0 and 17 SOL
ReserveHoldingValues == {0, 1700000}
\* the token accounts of the wallet when the bot starts
InitHeld == {{}, {"m1"}}
\* SOL received for one sold token account: 0.05 SOL
SellProceeds == {5000}

Max(a, b) == IF a >= b THEN a ELSE b
Min(a, b) == IF a <= b THEN a ELSE b

VARIABLES
    solBalance,        \* SOL balance of the treasury wallet
    held,              \* mints with a non-zero token account on chain
    feeExempt,         \* the wallet is exempt from the platform fee
    positions,         \* position records of the store
    nextId,            \* next position id of the store
    activePositions,   \* botState.activePositions: mint -> amountSOL
    totalTrades,       \* config.totalTrades
    strategyTradeCount,\* config.<strategy>TradeCount
    portfolioPeakSOL,  \* config.portfolioPeakSOL
    highWaterMark,     \* the highest portfolio value ever evaluated
    budgetUsed,        \* config.budgetUsed
    drawdownPaused,    \* PortfolioState.drawdownPaused
    platformFeesPaid,  \* SOL transferred out as platform fee
    buyOrders,         \* buy orders handed to the trade executor
    journal,           \* trade journal: position ids, one per entry
    removed,           \* ids of the position records taken out of the store
    last               \* what the last operation did

tradeVars == <<solBalance, held, feeExempt, positions, nextId, activePositions,
               totalTrades, strategyTradeCount, portfolioPeakSOL, budgetUsed,
               drawdownPaused, platformFeesPaid, buyOrders, journal, removed, last,
               highWaterMark>>

VARIABLES
    now,               \* the clock, in minutes
    failures,          \* provider -> consecutive failures
    disabledUntil,     \* provider -> minute its cooldown ends
    minQuorum,         \* configured minimum of usable votes
    scan,              \* kind of the last hivemind cycle
    called,            \* providers the last cycle called
    votes,             \* provider -> its vote, "error" or "absent"
    consensus          \* ConsensusResult of the last cycle

hiveVars == <<now, failures, disabledUntil, minQuorum, scan, called, votes,
              consensus>>

VARIABLES
    today,             \* the calendar date, as a day number
    enabled,           \* projects with aiBotEnabled
    aiBotStates,       \* project -> date of its AIBotState object, 0 for none
    botObjects,        \* the AIBotState objects, by project and date
    runs,              \* the executeAITradingBot calls in flight, by slot
    lastBotStatus,     \* project.lastBotStatus
    aiBuys,            \* buys executed, by project and date
    started,           \* executeAITradingBot calls started so far
    uncaught           \* functions an exception has propagated out of

schedVars == <<today, enabled, aiBotStates, botObjects, runs, lastBotStatus,
               aiBuys, started, uncaught>>

VARIABLES
    detection,         \* the last detectBundleActivity call: data and result
    tokenBlacklist,    \* rows of the tokenBlacklist table
    lastCheck          \* the last isTokenBlacklisted call

bundleVars == <<detection, tokenBlacklist, lastCheck>>

VARIABLES
    sellCheck          \* the last shouldSellPosition call: arguments, result

sellVars == <<sellCheck>>

VARIABLES
    hivemindStrategies, \* rows of the hivemindStrategies table, newest first
    clockHours,         \* the wall clock of the strategy store, in hours
    committed,          \* the strategy of the last successful save (history)
    latest              \* the last getLatestStrategy call

strategyVars == <<hivemindStrategies, clockHours, committed, latest>>

VARIABLES
    evaluation          \* the last evaluateAllStrategies call: arguments,
                        \* the three strategies' signals, the signal returned

evalVars == <<evaluation>>

VARIABLES
    generation          \* the last generateHivemindStrategy call: the recent
                        \* performance, the confidence used, the strategy

genVars == <<generation>>

\* the modules that are called on their own: bundle detection and blacklist,
\* the sell rule, the hivemind strategy store, the strategy evaluators, the
\* strategy generator
toolVars == <<bundleVars, sellVars, strategyVars, evalVars, genVars>>

vars == <<tradeVars, hiveVars, schedVars, toolVars>>

\* what the trade executor and the store leave alone
TradeFrame == UNCHANGED <<hiveVars, schedVars, toolVars>>
\* what the hivemind leaves alone
HiveFrame == UNCHANGED <<tradeVars, schedVars, toolVars>>
\* what the scheduler leaves alone
SchedFrame == UNCHANGED <<tradeVars, hiveVars, toolVars>>
\* what bundle detection and the blacklist leave alone
BundleFrame ==
    UNCHANGED <<tradeVars, hiveVars, schedVars, sellVars, strategyVars,
                evalVars, genVars>>
\* what the sell rule leaves alone
SellFrame ==
    UNCHANGED <<tradeVars, hiveVars, schedVars, bundleVars, strategyVars,
                evalVars, genVars>>
\* what the hivemind strategy store leaves alone
StrategyFrame ==
    UNCHANGED <<tradeVars, hiveVars, schedVars, bundleVars, sellVars,
                evalVars, genVars>>
\* what the strategy evaluators leave alone
EvalFrame ==
    UNCHANGED <<tradeVars, hiveVars, schedVars, bundleVars, sellVars,
                strategyVars, genVars>>
\* what the strategy generator leaves alone
GenFrame ==
    UNCHANGED <<tradeVars, hiveVars, schedVars, bundleVars, sellVars,
                strategyVars, evalVars>>

\* ------------------------------------------------- strategy trade executor

\* const FEE_BUFFER = Math.max(0.03, portfolio.totalValueSOL * 0.05)
FeeBuffer(totalValueSOL) ==
    Max(FEE_BUFFER_MIN, (totalValueSOL * FEE_BUFFER_PERCENT) \div 100)

\* const availableBalance = Math.max(0, actualBalance - FEE_BUFFER)
AvailableBalance(actualBalance, totalValueSOL) ==
    Max(0, actualBalance - FeeBuffer(totalValueSOL))

\* const maxPositionSize = availableBalance * 0.15
MaxPositionSize(availableBalance) ==
    (availableBalance * MAX_POSITION_PERCENT) \div 100

\* TradeAmount without the ceiling of maxPositionSize
TradeAmountNoCeiling(totalValueSOL, positionSizePercent, availableBalance) ==
    (totalValueSOL * positionSizePercent) \div 100

\* tradeAmount = Math.min(totalValueSOL * positionSizePercent / 100, maxPositionSize)
TradeAmount(totalValueSOL, positionSizePercent, availableBalance) ==
    Min((totalValueSOL * positionSizePercent) \div 100,
        MaxPositionSize(availableBalance))

\* deductPlatformFee(tradeAmount, owner, keypair): 1% of the trade amount,
\* unless the wallet is exempt
DeductPlatformFee(tradeAmount, exempt) ==
    LET platformFee == IF exempt THEN 0
                       ELSE (tradeAmount * PLATFORM_FEE_PERCENT) \div 100
    IN [platformFee |-> platformFee, amountAfterFee |-> tradeAmount - platformFee]

\* analyzePortfolio(wallet, actualBalance).totalValueSOL: cash plus the
\* mark-to-market value of the holdings
AnalyzePortfolio(actualBalance, holdingsValue) == actualBalance + holdingsValue

\* isTradingAllowed(owner, totalValueSOL, config): the drawdown latch. The
\* peak is raised to the current value; trading pauses at a drop of 20% or
\* more from the peak and resumes once the value is within 15% of it.
IsTradingAllowed(peak, paused, totalValueSOL) ==
    LET newPeak == Max(peak, totalValueSOL)
        nowPaused ==
            IF totalValueSOL * 100 <= newPeak * (100 - DRAWDOWN_PAUSE_PERCENT)
            THEN TRUE
            ELSE IF totalValueSOL * 100 >= newPeak * (100 - DRAWDOWN_RESUME_PERCENT)
                 THEN FALSE
                 ELSE paused
    IN [peak |-> newPeak, paused |-> nowPaused, allowed |-> ~nowPaused]

\* TradingBlocked with the early return left out
TradingNeverBlocked(tradingCheck) == FALSE

\* if (!tradingCheck.allowed) return
TradingBlocked(tradingCheck) == ~tradingCheck.allowed

\* if (tradeAmount < 0.01) return
TooSmall(tradeAmount) == tradeAmount < MIN_TRADE

\* strategyField: the per-strategy trade counter of the config
StrategyField(strategy) ==
    IF strategy = "MEAN_REVERSION" THEN "meanReversionTradeCount"
    ELSE IF strategy = "MOMENTUM_BREAKOUT" THEN "momentumBreakoutTradeCount"
    ELSE "gridTradingTradeCount"

StrategyFields == {StrategyField(s) : s \in Strategies}

\* storage.createAIBotPosition(record): a new record under a fresh id
CreateAIBotPosition(store, id, mint, amountSOL, strategy) ==
    store \cup {[id |-> id, tokenMint |-> mint, amountSOL |-> amountSOL,
                 strategyType |-> strategy]}

\* botState.activePositions.set(mint, entry)
SetActivePosition(map, mint, amountSOL) ==
    [m \in DOMAIN map \cup {mint} |-> IF m = mint THEN amountSOL ELSE map[m]]

\* The record of the last operation that got as far as the trading check, a
\* sell or the store: which one, where it stopped, what it read and computed.
NoLast == [op |-> "none", stage |-> "none", total |-> 0, balance |-> 0,
           pct |-> 0, fee |-> 0, id |-> 0, threw |-> FALSE]

\* Whether executeStrategyTrade ends with an exception: its whole body,
\* the imports included, is inside try, and catch (error) only logs.
StrategyTradeThrows(stage) == FALSE

\* The values executeStrategyTrade computes from one reading of the wallet.
TradePlan(pct, holdingsValue) ==
    LET actualBalance == solBalance
        total == AnalyzePortfolio(actualBalance, holdingsValue)
        check == IsTradingAllowed(portfolioPeakSOL, drawdownPaused, total)
        avail == AvailableBalance(actualBalance, total)
        amount == TradeAmount(total, pct, avail)
        fees == DeductPlatformFee(amount, feeExempt)
    IN [balance |-> actualBalance, total |-> total, check |-> check,
        avail |-> avail, tradeAmount |-> amount, fee |-> fees.platformFee,
        amountAfterFee |-> fees.amountAfterFee]

TradeLast(stage, pct, plan, id) ==
    [NoLast EXCEPT !.op = "trade", !.stage = stage,
                   !.threw = StrategyTradeThrows(stage), !.total = plan.total,
                   !.balance = plan.balance, !.pct = pct, !.fee = plan.fee,
                   !.id = id]

\* executeStrategyTrade returns before the trading check: no treasury key, or
\* an exception of the key, balance or portfolio lookup (caught and logged).
TradeNoStart(stage) ==
    /\ stage \in {"no_key", "error"}
    /\ TradeFrame
    /\ UNCHANGED <<last, solBalance, held, feeExempt, positions, nextId,
                   activePositions, totalTrades, strategyTradeCount,
                   portfolioPeakSOL, highWaterMark, budgetUsed,
                   drawdownPaused, platformFeesPaid, buyOrders, journal,
                   removed>>

\* executeStrategyTrade stops at the trading check or at the minimum size.
TradeSkipped(pct, holdingsValue) ==
    LET plan == TradePlan(pct, holdingsValue) IN
    /\ held = {} => holdingsValue = 0
    /\ TradingBlocked(plan.check) \/ TooSmall(plan.tradeAmount)
    /\ portfolioPeakSOL' = plan.check.peak
    /\ highWaterMark' = Max(highWaterMark, plan.total)
    /\ drawdownPaused' = plan.check.paused
    /\ last' = [NoLast EXCEPT !.op = "trade", !.total = plan.total,
                              !.stage = IF TradingBlocked(plan.check)
                                        THEN "blocked" ELSE "too_small"]
    /\ TradeFrame
    /\ UNCHANGED <<solBalance, held, feeExempt, positions, nextId,
                   activePositions, totalTrades, strategyTradeCount,
                   budgetUsed, platformFeesPaid, buyOrders, journal, removed>>

\* executeStrategyTrade deducts the fee and submits the buy, which fails.
TradeBuyFailed(pct, holdingsValue) ==
    LET plan == TradePlan(pct, holdingsValue) IN
    /\ buyOrders < MaxTrades
    /\ held = {} => holdingsValue = 0
    /\ ~TradingBlocked(plan.check) /\ ~TooSmall(plan.tradeAmount)
    /\ portfolioPeakSOL' = plan.check.peak
    /\ highWaterMark' = Max(highWaterMark, plan.total)
    /\ drawdownPaused' = plan.check.paused
    /\ platformFeesPaid' = platformFeesPaid + plan.fee
    /\ solBalance' = solBalance - plan.fee
    /\ buyOrders' = buyOrders + 1
    /\ last' = TradeLast("buy_failed", pct, plan, 0)
    /\ TradeFrame
    /\ UNCHANGED <<held, feeExempt, positions, nextId, activePositions,
                   totalTrades, strategyTradeCount, budgetUsed, journal,
                   removed>>

\* executeStrategyTrade buys. exc names the storage call that throws, if any:
\* createAIBotPosition or updateAIBotConfig; the catch block logs it.
TradeBought(mint, strategy, pct, holdingsValue, exc) ==
    LET plan == TradePlan(pct, holdingsValue) IN
    /\ buyOrders < MaxTrades
    /\ exc \in {"none", "create", "update"}
    /\ held = {} => holdingsValue = 0
    /\ ~TradingBlocked(plan.check) /\ ~TooSmall(plan.tradeAmount)
    /\ portfolioPeakSOL' = plan.check.peak
    /\ highWaterMark' = Max(highWaterMark, plan.total)
    /\ drawdownPaused' = plan.check.paused
    /\ platformFeesPaid' = platformFeesPaid + plan.fee
    /\ solBalance' = solBalance - plan.fee - plan.amountAfterFee
    /\ buyOrders' = buyOrders + 1
    /\ held' = held \cup {mint}
    /\ IF exc = "create"
       THEN UNCHANGED <<positions, nextId, activePositions>>
       ELSE /\ positions' = CreateAIBotPosition(positions, nextId, mint,
                                                plan.amountAfterFee, strategy)
            /\ nextId' = nextId + 1
            /\ activePositions' =
                   SetActivePosition(activePositions, mint, plan.amountAfterFee)
    /\ IF exc = "none"
       THEN /\ totalTrades' = totalTrades + 1
            /\ strategyTradeCount' =
                   [strategyTradeCount EXCEPT ![StrategyField(strategy)] = @ + 1]
       ELSE UNCHANGED <<totalTrades, strategyTradeCount>>
    /\ last' = TradeLast(IF exc = "none" THEN "opened" ELSE "error_" \o exc,
                         pct, plan, IF exc = "create" THEN 0 ELSE nextId)
    /\ TradeFrame
    /\ UNCHANGED <<feeExempt, budgetUsed, journal, removed>>

\* executeStrategyTrade(config, token, strategySignal, botState,
\* existingPositions), with the token, the signal, the valuation of the
\* holdings and the failing storage call drawn from the given sets.
\* existingPositions is not read by the function.
ExecuteStrategyTrade(mints, strategies, pcts, values, excs) ==
    \/ \E stage \in {"no_key", "error"} : TradeNoStart(stage)
    \/ \E pct \in pcts, hv \in values : TradeSkipped(pct, hv)
    \/ \E pct \in pcts, hv \in values : TradeBuyFailed(pct, hv)
    \/ \E mint \in mints, strategy \in strategies, pct \in pcts,
          hv \in values, exc \in excs :
           TradeBought(mint, strategy, pct, hv, exc)

\* ------------------------------------------------------ closeAllPositions

\* for (const position of dbPositions) await storage.deleteAIBotPosition(position.id)
DeleteAllPositions(store) == {}

\* createOrUpdateAIBotConfig({ portfolioPeakSOL: "0", budgetUsed: "0" })
ResetPeak(peak) == 0

\* closeAllPositions throws before selling anything: no config, no treasury
\* key, or the token account scan fails.
CloseAllThrows ==
    /\ TradeFrame
    /\ UNCHANGED <<last, solBalance, held, feeExempt, positions, nextId,
                   activePositions, totalTrades, strategyTradeCount,
                   portfolioPeakSOL, highWaterMark, budgetUsed,
                   drawdownPaused, platformFeesPaid, buyOrders, journal,
                   removed>>

\* closeAllPositions runs to its return: every token account with a balance
\* is offered for sale, sold names the sells that succeed; then every position
\* record of the wallet is deleted and the peak and the used budget are reset.
CloseAllReturns(sold, proceeds) ==
    /\ sold \subseteq held
    /\ held' = held \ sold
    /\ solBalance' = solBalance + Cardinality(sold) * proceeds
    /\ positions' = DeleteAllPositions(positions)
    /\ removed' = removed \cup {p.id : p \in positions \ positions'}
    /\ portfolioPeakSOL' = ResetPeak(portfolioPeakSOL)
    /\ budgetUsed' = 0
    /\ last' = [NoLast EXCEPT !.op = "closeAll", !.stage = "returned"]
    /\ TradeFrame
    /\ UNCHANGED <<feeExempt, nextId, activePositions, totalTrades,
                   strategyTradeCount, drawdownPaused, platformFeesPaid,
                   buyOrders, journal, highWaterMark>>

\* closeAllPositions(ownerWalletAddress)
CloseAllPositions ==
    \/ CloseAllThrows
    \/ \E sold \in SUBSET held, proceeds \in SellProceeds :
           CloseAllReturns(sold, proceeds)

\* ----------------------------------------------- position lifecycle manager

\* A monitored exit of one open position: the sell succeeds, the position
\* leaves the store with one journal entry, and the peak is raised when the
\* new total exceeds it.
ExitPosition(p, proceeds, holdingsValue) ==
    LET others == {q \in positions : q.tokenMint = p.tokenMint /\ q.id # p.id}
        heldAfter == IF others = {} THEN held \ {p.tokenMint} ELSE held
        total == AnalyzePortfolio(solBalance + proceeds, holdingsValue)
    IN
    /\ Len(journal) < MaxExits
    /\ p \in positions
    /\ heldAfter = {} => holdingsValue = 0
    /\ held' = heldAfter
    /\ solBalance' = solBalance + proceeds
    /\ positions' = positions \ {p}
    /\ removed' = removed \cup {p.id}
    /\ journal' = Append(journal, p.id)
    /\ activePositions' =
           [m \in DOMAIN activePositions \ {p.tokenMint} |-> activePositions[m]]
    /\ portfolioPeakSOL' = Max(portfolioPeakSOL, total)
    /\ highWaterMark' = Max(highWaterMark, total)
    /\ last' = [NoLast EXCEPT !.op = "exit", !.stage = "sold", !.id = p.id,
                              !.total = total]
    /\ TradeFrame
    /\ UNCHANGED <<feeExempt, nextId, totalTrades, strategyTradeCount,
                   budgetUsed, drawdownPaused, platformFeesPaid, buyOrders>>

\* A monitored exit whose sell fails: the position stays open, nothing is
\* written.
ExitFailed(p) ==
    /\ p \in positions
    /\ TradeFrame
    /\ UNCHANGED <<last, solBalance, held, feeExempt, positions, nextId,
                   activePositions, totalTrades, strategyTradeCount,
                   portfolioPeakSOL, highWaterMark, budgetUsed,
                   drawdownPaused, platformFeesPaid, buyOrders, journal,
                   removed>>

MonitorExit(values) ==
    \E p \in positions :
        \/ \E proceeds \in SellProceeds, hv \in values :
               ExitPosition(p, proceeds, hv)
        \/ ExitFailed(p)

\* ---------------------------------------------------------- specification

TradeInit ==
    /\ solBalance \in InitBalances
    /\ held \in InitHeld
    /\ feeExempt \in BOOLEAN
    /\ positions = {}
    /\ nextId = 1
    /\ activePositions = [m \in {} |-> 0]
    /\ totalTrades = 0
    /\ strategyTradeCount = [f \in StrategyFields |-> 0]
    /\ portfolioPeakSOL = 0
    /\ highWaterMark = 0
    /\ budgetUsed = 0
    /\ drawdownPaused = FALSE
    /\ platformFeesPaid = 0
    /\ buyOrders = 0
    /\ journal = <<>>
    /\ removed = {}
    /\ last = NoLast

\* ------------------------------------------------------------- hivemind

\* what comes of asking a provider that fails, and of not asking one
ErrorVote == [action |-> "error", confidence |-> 0]
AbsentVote == [action |-> "absent", confidence |-> 0]

\* a vote: action and confidence in percent
VoteValues == {[action |-> "buy", confidence |-> 90],
               [action |-> "buy", confidence |-> 60],
               [action |-> "sell", confidence |-> 70],
               [action |-> "hold", confidence |-> 50]}

\* InCooldown with the end of the cooldown counted in
InCooldownInclusive(p) == now <= disabledUntil[p]

\* The provider is in its cooldown: it is skipped, no call is attempted.
InCooldown(p) == now < disabledUntil[p]

\* The providers a scan asks: the top-priority ones for a quick scan, all
\* for a deep scan.
Panel(kind) == IF kind = "quick" THEN QuickPanel ELSE Providers

\* The circuit breaker after one call of provider p: a success clears the
\* failure counter, the third consecutive failure starts the cooldown.
BreakerAfter(p, failed) ==
    IF ~failed THEN [failures |-> 0, disabledUntil |-> disabledUntil[p]]
    ELSE IF failures[p] + 1 >= FAILURE_LIMIT
         THEN [failures |-> 0, disabledUntil |-> now + COOLDOWN_MINUTES]
         ELSE [failures |-> failures[p] + 1, disabledUntil |-> disabledUntil[p]]

\* the usable votes: neither absent nor an error
Usable(vs) == {p \in Providers : vs[p].action \notin {"absent", "error"}}

Supporters(vs, action) == {p \in Usable(vs) : vs[p].action = action}

RECURSIVE SumConfidence(_, _)
SumConfidence(vs, ps) ==
    IF ps = {} THEN 0
    ELSE LET p == CHOOSE q \in ps : TRUE
         IN vs[p].confidence + SumConfidence(vs, ps \ {p})

\* The actions that may win: those with the most votes; among several, the
\* ones of the highest-confidence vote.
Winners(vs) ==
    LET acts == {"buy", "sell", "hold"}
        most == {a \in acts : \A b \in acts :
                    Cardinality(Supporters(vs, a)) >= Cardinality(Supporters(vs, b))}
        top(a) == {vs[p].confidence : p \in Supporters(vs, a)}
    IN {a \in most : \A b \in most : \A cb \in top(b) :
                        \E ca \in top(a) : ca >= cb}

\* Consensus without the quorum
ConsensusNoQuorum(vs, quorum) ==
    IF Usable(vs) = {}
    THEN {[action |-> "hold", confidence |-> 0, voteCount |-> 0]}
    ELSE {[action |-> a,
           confidence |-> SumConfidence(vs, Supporters(vs, a))
                              \div Cardinality(Supporters(vs, a)),
           voteCount |-> Cardinality(Usable(vs))] : a \in Winners(vs)}

\* The ConsensusResults the votes allow: hold when fewer than quorum
\* providers gave a usable vote; otherwise a winning action with the mean
\* confidence of its supporters.
Consensus(vs, quorum) ==
    IF Cardinality(Usable(vs)) < quorum
    THEN {[action |-> "hold", confidence |-> 0,
           voteCount |-> Cardinality(Usable(vs))]}
    ELSE {[action |-> a,
           confidence |-> SumConfidence(vs, Supporters(vs, a))
                              \div Cardinality(Supporters(vs, a)),
           voteCount |-> Cardinality(Usable(vs))] : a \in Winners(vs)}

\* One hivemind cycle: every provider of the panel that is not in its
\* cooldown is called, answers answers[p] (a vote or an error), and the
\* votes are merged.
HivemindCycle(kinds, answerSet) ==
    \E kind \in kinds, answers \in [Providers -> answerSet] :
        LET asked == {p \in Panel(kind) : ~InCooldown(p)}
            vs == [p \in Providers |->
                      IF p \in asked THEN answers[p] ELSE AbsentVote]
        IN /\ scan' = kind
           /\ called' = asked
           /\ votes' = vs
           /\ failures' = [p \in Providers |->
                  IF p \in asked THEN BreakerAfter(p, vs[p] = ErrorVote).failures
                  ELSE failures[p]]
           /\ disabledUntil' = [p \in Providers |->
                  IF p \in asked
                  THEN BreakerAfter(p, vs[p] = ErrorVote).disabledUntil
                  ELSE disabledUntil[p]]
           /\ consensus' \in Consensus(vs, minQuorum)
           /\ UNCHANGED <<now, minQuorum>>
           /\ HiveFrame

\* a minute passes
Tick ==
    /\ now < MaxTime
    /\ now' = now + 1
    /\ UNCHANGED <<failures, disabledUntil, minQuorum, scan, called, votes,
                   consensus>>
    /\ HiveFrame

HiveInit ==
    /\ now = 0
    /\ failures = [p \in Providers |-> 0]
    /\ disabledUntil = [p \in Providers |-> 0]
    /\ minQuorum \in 1..Cardinality(Providers)
    /\ scan = "none"
    /\ called = {}
    /\ votes = [p \in Providers |-> AbsentVote]
    /\ consensus = [action |-> "hold", confidence |-> 0, voteCount |-> 0]

\* ------------------------------------------------------------ scheduler

Days == 1..MaxDay

\* botState = { dailyTradesExecuted: 0, lastResetDate: today,
\*              activePositions: new Map() }
FreshBotState == [dailyTradesExecuted |-> 0, activePositions |-> {}]

\* const maxDailyTrades = project.aiBotMaxDailyTrades || 10
DailyLimit == IF AiBotMaxDailyTrades = 0 THEN 10 ELSE AiBotMaxDailyTrades

\* if (botState.dailyTradesExecuted >= maxDailyTrades)
DailyLimitReached(botState) == botState.dailyTradesExecuted >= DailyLimit

\* if (!botState || botState.lastResetDate !== today): a new state object
NeedsReset(project) == aiBotStates[project] # today

\* The AIBotState object executeAITradingBot works on after the get-or-reset.
BotStateOf(project) ==
    IF NeedsReset(project) THEN FreshBotState ELSE botObjects[project][today]

\* executeAITradingBot(project) up to its first await, for an enabled
\* project: the call now in flight. Without the Grok key it only writes the
\* failed status; at the daily limit it only writes the skipped status.
NewRun(project, grok, origin) ==
    IF ~grok
    THEN [project |-> project, origin |-> origin, pc |-> "status",
          status |-> "failed", obj |-> 0,
          tokens |-> <<>>, amountSOL |-> 0, caught |-> FALSE]
    ELSE [project |-> project, origin |-> origin,
          pc |-> IF DailyLimitReached(BotStateOf(project)) THEN "status"
                 ELSE "setup",
          status |-> IF DailyLimitReached(BotStateOf(project)) THEN "skipped"
                     ELSE "none",
          obj |-> today, tokens |-> <<>>, amountSOL |-> 0, caught |-> FALSE]

\* The calls started for the projects ps, in one synchronous stretch:
\* aiBotStates.set(project.id, botState) for each that needs a reset.
StartRuns(ps, grok, origin) ==
    LET order == CHOOSE sq \in [1..Cardinality(ps) -> ps] :
                     \A i, j \in 1..Cardinality(ps) : i # j => sq[i] # sq[j]
    IN /\ started + Cardinality(ps) <= MaxStarts
       /\ started' = started + Cardinality(ps)
       /\ runs' = runs \o [i \in 1..Cardinality(ps) |->
                                NewRun(order[i], grok, origin)]
       /\ aiBotStates' = [q \in Projects |->
              IF q \in ps /\ grok THEN today ELSE aiBotStates[q]]
       /\ botObjects' = [q \in Projects |-> [d \in Days |->
              IF q \in ps /\ grok /\ d = today /\ NeedsReset(q)
              THEN FreshBotState ELSE botObjects[q][d]]]

\* cron.schedule("*/5 * * * *", () => runAITradingBots()): every enabled
\* project's bot is started, whether or not an earlier call is still running.
\* The job is scheduled only when the Grok key is configured.
RunAITradingBots ==
    /\ enabled # {}
    /\ StartRuns(enabled, TRUE, "cron")
    /\ UNCHANGED <<today, enabled, lastBotStatus, aiBuys, uncaught>>
    /\ SchedFrame

\* triggerAIBotManually(projectId)
TriggerAIBotManually(project) ==
    /\ project \in enabled
    /\ \E grok \in BOOLEAN : StartRuns({project}, grok, "manual")
    /\ UNCHANGED <<today, enabled, lastBotStatus, aiBuys, uncaught>>
    /\ SchedFrame

\* triggerAIBotManually for a project whose bot is disabled, or
\* runAITradingBots with no project enabled: executeAITradingBot returns at
\* once, nothing is started.
NothingToRun ==
    /\ enabled # Projects
    /\ UNCHANGED schedVars
    /\ SchedFrame

ReplaceRun(i, r) == [runs EXCEPT ![i] = r]

RemoveRun(i) == SubSeq(runs, 1, i - 1) \o SubSeq(runs, i + 1, Len(runs))

\* The call leaves the try block for its last await, updateProject(status).
ToStatus(r, status) == [r EXCEPT !.pc = "status", !.status = status]

\* catch (error): updateProject({ lastBotStatus: "failed" })
ToCatch(r) == [r EXCEPT !.pc = "status", !.status = "failed", !.caught = TRUE]

\* The head of the for loop over the remaining tokens, with the object the
\* call holds read as obj: break at the daily limit, else analyse the next.
LoopHead(r, tokens, obj) ==
    IF tokens = <<>> \/ DailyLimitReached(obj)
    THEN [ToStatus(r, "success") EXCEPT !.tokens = <<>>]
    ELSE [r EXCEPT !.pc = "analyze", !.tokens = tokens]

\* getTreasuryKey, getWalletBalance and fetchTrendingPumpFunTokens return.
RunSetup(i) ==
    LET r == runs[i] IN
    /\ r.pc = "setup"
    /\ \E outcome \in {"no_key", "low_balance", "throws", "fetched"} :
        \E tokens \in TrendingLists :
          runs' = ReplaceRun(i,
              IF outcome \in {"no_key", "low_balance"} THEN ToStatus(r, "failed")
              ELSE IF outcome = "throws" THEN ToCatch(r)
              ELSE IF tokens = <<>> THEN ToStatus(r, "skipped")
              ELSE LoopHead(r, tokens, botObjects[r.project][r.obj]))
    /\ UNCHANGED <<today, enabled, aiBotStates, botObjects, lastBotStatus,
                   aiBuys, started, uncaught>>
    /\ SchedFrame

\* const amountSOL = analysis.suggestedBuyAmountSOL || budgetPerTrade
AmountSOL(suggested, budgetPerTrade) ==
    IF suggested = 0 THEN budgetPerTrade ELSE suggested

\* analyzeTokenWithGrok returns: the token is passed over, or bought.
RunAnalyze(i) ==
    LET r == runs[i] IN
    /\ r.pc = "analyze"
    /\ \E outcome \in {"throws", "pass", "buy"} :
        \E suggested \in SuggestedAmounts, budget \in BudgetPerTrade :
          runs' = ReplaceRun(i,
              IF outcome = "throws" THEN ToCatch(r)
              ELSE IF outcome = "pass"
              THEN LoopHead(r, Tail(r.tokens), botObjects[r.project][r.obj])
              ELSE [r EXCEPT !.pc = "buy",
                             !.amountSOL = AmountSOL(suggested, budget)])
    /\ UNCHANGED <<today, enabled, aiBotStates, botObjects, lastBotStatus,
                   aiBuys, started, uncaught>>
    /\ SchedFrame

\* buyTokenOnPumpFun returns.
RunBuy(i) ==
    LET r == runs[i] IN
    /\ r.pc = "buy"
    /\ \E outcome \in {"throws", "failed", "bought"} :
          /\ runs' = ReplaceRun(i,
                IF outcome = "throws" THEN ToCatch(r)
                ELSE IF outcome = "failed"
                THEN LoopHead([r EXCEPT !.amountSOL = 0], Tail(r.tokens),
                              botObjects[r.project][r.obj])
                ELSE [r EXCEPT !.pc = "record"])
          /\ aiBuys' = IF outcome = "bought"
                       THEN [aiBuys EXCEPT ![r.project][today] = @ + 1]
                       ELSE aiBuys
    /\ UNCHANGED <<today, enabled, aiBotStates, botObjects, lastBotStatus,
                   started, uncaught>>
    /\ SchedFrame

\* botState.activePositions.set(token.mint, ...); botState.dailyTradesExecuted++
TrackPosition(botState, mint) ==
    [dailyTradesExecuted |-> botState.dailyTradesExecuted + 1,
     activePositions |-> botState.activePositions \cup {mint}]

\* createTransaction and deductTransactionFee return; the position is
\* tracked and the daily counter raised on the object the call holds.
RunRecord(i) ==
    LET r == runs[i]
        tracked == TrackPosition(botObjects[r.project][r.obj], Head(r.tokens))
    IN
    /\ r.pc = "record"
    /\ \E outcome \in {"throws", "recorded"} :
          IF outcome = "throws"
          THEN /\ runs' = ReplaceRun(i, ToCatch(r))
               /\ UNCHANGED botObjects
          ELSE /\ botObjects' = [botObjects EXCEPT ![r.project][r.obj] = tracked]
               /\ runs' = ReplaceRun(i, LoopHead([r EXCEPT !.amountSOL = 0],
                                                 Tail(r.tokens), tracked))
    /\ UNCHANGED <<today, enabled, aiBotStates, lastBotStatus, aiBuys, started,
                   uncaught>>
    /\ SchedFrame

\* as Leaves, were runAITradingBots to await Promise.all outside its try block
LeavesUncaught(origin) ==
    IF origin = "cron" THEN {"executeAITradingBot", "runAITradingBots"}
    ELSE {"executeAITradingBot", "triggerAIBotManually"}

\* The functions an exception leaves once the catch block of
\* executeAITradingBot has thrown: runAITradingBots awaits Promise.all inside
\* its try block and its catch block only logs; triggerAIBotManually awaits
\* the call outside any try block.
Leaves(origin) ==
    IF origin = "cron" THEN {"executeAITradingBot"}
    ELSE {"executeAITradingBot", "triggerAIBotManually"}

\* storage.updateProject(project.id, { lastBotStatus }) returns and the call
\* ends; when it throws inside the try block the catch block writes failed,
\* when it throws inside the catch block the call ends with the exception.
RunStatus(i) ==
    LET r == runs[i] IN
    /\ r.pc = "status"
    /\ \E outcome \in {"throws", "written"} :
          IF outcome = "written"
          THEN /\ lastBotStatus' = [lastBotStatus EXCEPT ![r.project] = r.status]
               /\ runs' = RemoveRun(i)
               /\ UNCHANGED uncaught
          ELSE /\ UNCHANGED lastBotStatus
               /\ runs' = IF r.caught THEN RemoveRun(i)
                          ELSE ReplaceRun(i, ToCatch(r))
               /\ uncaught' = IF r.caught THEN uncaught \cup Leaves(r.origin)
                              ELSE uncaught
    /\ UNCHANGED <<today, enabled, aiBotStates, botObjects, aiBuys, started>>
    /\ SchedFrame

\* midnight: new Date().toISOString().split("T")[0] changes
NewDay ==
    /\ today < MaxDay
    /\ today' = today + 1
    /\ UNCHANGED <<enabled, aiBotStates, botObjects, runs, lastBotStatus,
                   aiBuys, started, uncaught>>
    /\ SchedFrame

SchedInit ==
    /\ today = 1
    /\ enabled \in {{}, {"p1"}, {"p1", "p2"}}
    /\ aiBotStates = [q \in Projects |-> 0]
    /\ botObjects = [q \in Projects |-> [d \in Days |-> FreshBotState]]
    /\ runs = <<>>
    /\ lastBotStatus = [q \in Projects |-> "none"]
    /\ aiBuys = [q \in Projects |-> [d \in Days |-> 0]]
    /\ started = 0
    /\ uncaught = {}

\* no project, no bot run
SchedStart == SchedInit /\ enabled = {"p1"}

\* ------------------------------------------------------ bundle detection

\* tokenData.profile?.organicScore ?? 50
OrganicScore(tokenData) ==
    IF tokenData.profile.present THEN tokenData.profile.organicScore ELSE 50

\* tokenData.profile?.qualityScore ?? 50
QualityScore(tokenData) ==
    IF tokenData.profile.present THEN tokenData.profile.qualityScore ELSE 50

\* buys + sells
TotalTxs(tokenData) == tokenData.txns.buys + tokenData.txns.sells

Abs(x) == IF x < 0 THEN -x ELSE x

\* SIGNAL 1: very low organic score
OrganicSignal(tokenData) ==
    IF OrganicScore(tokenData) < 30 THEN 40
    ELSE IF OrganicScore(tokenData) < 50 THEN 20 ELSE 0

\* SIGNAL 2: very low quality score
QualitySignal(tokenData) ==
    IF QualityScore(tokenData) < 30 THEN 30
    ELSE IF QualityScore(tokenData) < 50 THEN 15 ELSE 0

\* SIGNAL 3: high transaction count with a low organic score
BundleTxSignal(tokenData) ==
    IF TotalTxs(tokenData) > 1000 /\ OrganicScore(tokenData) < 40
    THEN 25 ELSE 0

\* SIGNAL 3: buyRatio = buys / totalTxs above 0.85 or below 0.15
SkewSignal(tokenData) ==
    IF /\ TotalTxs(tokenData) > 100
       /\ \/ tokenData.txns.buys * 100 > 85 * TotalTxs(tokenData)
          \/ tokenData.txns.buys * 100 < 15 * TotalTxs(tokenData)
    THEN 20 ELSE 0

\* SIGNAL 4: volume24h / liquidityUSD above 20, when both are positive
LiquiditySignal(tokenData) ==
    IF /\ tokenData.market.liquidityUSD > 0
       /\ tokenData.market.volume24h > 0
       /\ tokenData.market.volume24h > 20 * tokenData.market.liquidityUSD
    THEN 20 ELSE 0

\* pairAge < 24 * 60 * 60 * 1000, pairAge being Infinity without pairCreatedAt
IsVeryNew(tokenData, nowMs) ==
    /\ tokenData.pairCreatedAt # 0
    /\ nowMs - tokenData.pairCreatedAt < 24 * 60 * 60 * 1000

\* SIGNAL 5: new token with instant high volume
PumpSignal(tokenData, nowMs) ==
    IF /\ IsVeryNew(tokenData, nowMs)
       /\ tokenData.market.volume24h > 100000
       /\ OrganicScore(tokenData) < 50
    THEN 25 ELSE 0

\* SIGNAL 6: extreme price movements
VolatilitySignal(tokenData) ==
    IF Abs(tokenData.priceChange.h1) > 50 \/ Abs(tokenData.priceChange.h24) > 100
    THEN 15 ELSE 0

\* Math.floor(millisIn24h / totalTxs), 0 without transactions
AvgTimeBetweenTxs(tokenData) ==
    IF TotalTxs(tokenData) > 0
    THEN (24 * 60 * 60 * 1000) \div TotalTxs(tokenData) ELSE 0

\* very frequent transactions: under 5 seconds apart on average
FrequencySignal(tokenData) ==
    IF /\ TotalTxs(tokenData) > 0
       /\ AvgTimeBetweenTxs(tokenData) < 5000
       /\ TotalTxs(tokenData) > 500
    THEN 20 ELSE 0

\* CapScore without the cap
CapScoreUncapped(score) == score

\* score = Math.min(100, score)
CapScore(score) == Min(100, score)

\* the score detectBundleActivity has added up when it reaches its return
BundleScore(tokenData, nowMs) ==
    CapScore(OrganicSignal(tokenData) + QualitySignal(tokenData)
             + BundleTxSignal(tokenData) + SkewSignal(tokenData)
             + LiquiditySignal(tokenData) + PumpSignal(tokenData, nowMs)
             + VolatilitySignal(tokenData) + FrequencySignal(tokenData))

\* Severity with the critical threshold at the suspicious threshold
SeverityAtSuspicious(score) == IF score >= 60 THEN "critical" ELSE "warning"

\* severity = score >= 70 ? 'critical' : 'warning'
Severity(score) == IF score >= 70 THEN "critical" ELSE "warning"

\* isSuspicious = score >= 60
IsSuspicious(score) == score >= 60

\* suspiciousWalletCount: the estimates of signal 3 and of the frequency signal
SuspiciousWalletCount(tokenData) ==
    LET bundles == IF BundleTxSignal(tokenData) > 0
                   THEN (TotalTxs(tokenData) * 3) \div 10 ELSE 0
    IN IF FrequencySignal(tokenData) > 0
       THEN Max(bundles, (TotalTxs(tokenData) * 4) \div 10)
       ELSE bundles

\* reasons: one entry pushed by each signal that added to the score, in the
\* order of the signals
Reasons(tokenData, nowMs) ==
    LET signals ==
            <<[reason |-> "organic", weight |-> OrganicSignal(tokenData)],
              [reason |-> "quality", weight |-> QualitySignal(tokenData)],
              [reason |-> "bundles", weight |-> BundleTxSignal(tokenData)],
              [reason |-> "skew", weight |-> SkewSignal(tokenData)],
              [reason |-> "liquidity", weight |-> LiquiditySignal(tokenData)],
              [reason |-> "pump", weight |-> PumpSignal(tokenData, nowMs)],
              [reason |-> "volatility", weight |-> VolatilitySignal(tokenData)],
              [reason |-> "frequency", weight |-> FrequencySignal(tokenData)]>>
        pushed == SelectSeq(signals, LAMBDA signal : signal.weight > 0)
    IN [i \in 1..Len(pushed) |-> pushed[i].reason]

\* the result detectBundleActivity returns after analysing tokenData
Analysed(tokenData, nowMs) ==
    [outcome |-> "analysed",
     isSuspicious |-> IsSuspicious(BundleScore(tokenData, nowMs)),
     score |-> BundleScore(tokenData, nowMs),
     suspiciousWalletCount |-> SuspiciousWalletCount(tokenData),
     avgTimeBetweenTxs |-> AvgTimeBetweenTxs(tokenData),
     reasons |-> Reasons(tokenData, nowMs),
     severity |-> Severity(BundleScore(tokenData, nowMs))]

\* NotAnalysed failing closed: the token is reported as a critical bundle
NotAnalysedBlocking(outcome) ==
    [outcome |-> outcome, isSuspicious |-> TRUE, score |-> 100,
     suspiciousWalletCount |-> 0, avgTimeBetweenTxs |-> 0,
     reasons |-> <<"Analysis failed - blocked">>,
     severity |-> "critical"]

\* the result without token data ("insufficient") and the result of the
\* catch block ("failed")
NotAnalysed(outcome) ==
    [outcome |-> outcome, isSuspicious |-> FALSE, score |-> 0,
     suspiciousWalletCount |-> 0, avgTimeBetweenTxs |-> 0,
     reasons |-> IF outcome = "insufficient"
                 THEN <<"Insufficient data for bundle analysis">>
                 ELSE IF outcome = "failed"
                 THEN <<"Analysis failed - proceeding with caution">>
                 ELSE <<>>,
     severity |-> "warning"]

\* token data of a call that analysed none
NoTokenData ==
    [profile |-> [present |-> FALSE, organicScore |-> 0, qualityScore |-> 0],
     txns |-> [buys |-> 0, sells |-> 0],
     market |-> [liquidityUSD |-> 0, volume24h |-> 0],
     pairCreatedAt |-> 0, priceChange |-> [h1 |-> 0, h24 |-> 0]]

\* detectBundleActivity(tokenMint, tokenData) for the token whose data is
\* pending: the data is passed in or fetched from DexScreener and analysed,
\* or the fetch gives no pair ("insufficient") or throws ("failed").
DetectBundleActivity ==
    /\ detection.result.outcome = "none"
    /\ \/ detection' = [detection EXCEPT
                            !.result = Analysed(detection.data, detection.nowMs)]
       \/ \E outcome \in {"insufficient", "failed"} :
              detection' = [detection EXCEPT !.data = NoTokenData,
                                             !.result = NotAnalysed(outcome)]
    /\ UNCHANGED <<tokenBlacklist, lastCheck>>
    /\ BundleFrame

\* ------------------------------------------------------------- blacklist

\* the mints that have a row in tokenBlacklist
BlacklistedMints == {row.tokenMint : row \in tokenBlacklist}

\* db.insert(tokenBlacklist).values(...).onConflictDoUpdate(...)
Upsert(table, mint, severity) ==
    {row \in table : row.tokenMint # mint}
        \cup {[tokenMint |-> mint, severity |-> severity]}

\* addToBlacklist(tokenMint, ..., severity, ...): the row is written, or the
\* insert throws and the error is rethrown.
AddToBlacklist(mint, severity, dbFails) ==
    /\ tokenBlacklist' = IF dbFails THEN tokenBlacklist
                         ELSE Upsert(tokenBlacklist, mint, severity)
    /\ UNCHANGED <<detection, lastCheck>>
    /\ BundleFrame

\* explicit removal of a blacklist row
RemoveFromBlacklist(mint) ==
    /\ mint \in BlacklistedMints
    /\ tokenBlacklist' = {row \in tokenBlacklist : row.tokenMint # mint}
    /\ UNCHANGED <<detection, lastCheck>>
    /\ BundleFrame

\* result.length > 0, or false from the catch block
BlacklistAnswer(table, mint, dbFails) ==
    IF dbFails THEN FALSE ELSE \E row \in table : row.tokenMint = mint

\* isTokenBlacklisted(tokenMint); listed records whether the table had a row
\* for the mint when it was asked
IsTokenBlacklisted(mint, dbFails) ==
    /\ lastCheck' = [op |-> "check", tokenMint |-> mint,
                     listed |-> mint \in BlacklistedMints,
                     result |-> BlacklistAnswer(tokenBlacklist, mint, dbFails)]
    /\ UNCHANGED <<detection, tokenBlacklist>>
    /\ BundleFrame

\* a detection is about to be asked for, for any of the token datas
DetectionPending ==
    detection \in {[data |-> tokenData, nowMs |-> nowMs,
                    result |-> NotAnalysed("none")] :
                       tokenData \in TokenDatas, nowMs \in NowMs}

BundleInit ==
    /\ detection \in {[data |-> NoTokenData, nowMs |-> nowMs,
                       result |-> NotAnalysed("none")] : nowMs \in NowMs}
    /\ tokenBlacklist = {}
    /\ lastCheck = [op |-> "none", tokenMint |-> "none", listed |-> FALSE,
                    result |-> FALSE]

\* -------------------------------------------------------------- sell rule

\* profitTarget && ..., stopLoss && ...: the field is set and parses to a
\* number other than 0
Configured(percent) == percent.present /\ percent.value # 0

\* profitPercent = ((currentPrice - entryPrice) / entryPrice) * 100 compared
\* with a percentage: profitPercent >= percent. A zero entry price gives
\* Infinity for a positive current price and NaN for a zero one.
ProfitAtLeast(entryPrice, currentPrice, percent) ==
    IF entryPrice = 0 THEN currentPrice > 0
    ELSE (currentPrice - entryPrice) * 100 >= percent * entryPrice

\* profitPercent <= percent
ProfitAtMost(entryPrice, currentPrice, percent) ==
    IF entryPrice = 0 THEN FALSE
    ELSE (currentPrice - entryPrice) * 100 <= percent * entryPrice

\* if (profitTarget && profitPercent >= profitTarget)
ProfitTargetHit(position, currentPrice) ==
    /\ Configured(position.strategyProfitTarget)
    /\ ProfitAtLeast(position.entryPriceSOL, currentPrice,
                     position.strategyProfitTarget.value)

\* StopLossHit with the stop-loss test left out
StopLossIgnored(position, currentPrice) == FALSE

\* if (stopLoss && profitPercent <= -stopLoss)
StopLossHit(position, currentPrice) ==
    /\ Configured(position.strategyStopLoss)
    /\ ProfitAtMost(position.entryPriceSOL, currentPrice,
                    -position.strategyStopLoss.value)

\* token.rsi ?? 50
Rsi(token) == IF token.hasRsi THEN token.rsi ELSE 50

\* shouldSellPosition(position, currentPrice, token)
ShouldSellPosition(position, currentPrice, token) ==
    IF ProfitTargetHit(position, currentPrice)
    THEN [shouldSell |-> TRUE, reason |-> "profit_target", confidence |-> 90]
    ELSE IF StopLossHit(position, currentPrice)
    THEN [shouldSell |-> TRUE, reason |-> "stop_loss", confidence |-> 95]
    ELSE IF position.strategyType = "MEAN_REVERSION" /\ Rsi(token) > 70
    THEN [shouldSell |-> TRUE, reason |-> "rsi_overbought", confidence |-> 85]
    ELSE IF position.strategyType = "MOMENTUM_BREAKOUT"
            /\ token.priceChange1h < -5
    THEN [shouldSell |-> TRUE, reason |-> "momentum_reversed",
          confidence |-> 80]
    ELSE [shouldSell |-> FALSE, reason |-> "none", confidence |-> 0]

\* the position monitor asks shouldSellPosition about the pending position
CheckSell ==
    /\ ~sellCheck.done
    /\ sellCheck' = [sellCheck EXCEPT
           !.done = TRUE,
           !.result = ShouldSellPosition(sellCheck.position,
                                         sellCheck.currentPrice,
                                         sellCheck.token)]
    /\ UNCHANGED bundleVars
    /\ SellFrame

\* a position, a price and market data about to be checked
SellPending ==
    sellCheck \in
        {[position |-> [strategyType |-> st, entryPriceSOL |-> ep,
                        strategyProfitTarget |-> pt, strategyStopLoss |-> sl],
          currentPrice |-> cp, token |-> tk, done |-> FALSE,
          result |-> [shouldSell |-> FALSE, reason |-> "none",
                      confidence |-> 0]] :
            st \in Strategies, ep \in EntryPrices, pt \in ProfitTargets,
            sl \in StopLosses, cp \in CurrentPrices, tk \in TokenSignals}

\* no position is being checked
SellInit ==
    sellCheck = [position |-> [strategyType |-> "GRID_TRADING",
                               entryPriceSOL |-> 100,
                               strategyProfitTarget |-> NotSet,
                               strategyStopLoss |-> NotSet],
                 currentPrice |-> 100,
                 token |-> [hasRsi |-> FALSE, rsi |-> 0, priceChange1h |-> 0],
                 done |-> TRUE,
                 result |-> [shouldSell |-> FALSE, reason |-> "none",
                             confidence |-> 0]]

\* ------------------------------------------------ hivemind strategy store

\* "no strategy": the null of getLatestStrategy
NoStrategy ==
    [marketSentiment |-> "none", preferredMarketCap |-> "none",
     minConfidenceThreshold |-> 0, maxDailyTrades |-> 0,
     riskLevel |-> "none"]

\* the market-cap ceiling stored for a preferred market cap
RecommendedMaxMarketCap(preferredMarketCap) ==
    IF preferredMarketCap = "ultra-low" THEN 100000
    ELSE IF preferredMarketCap = "low" THEN 1000000
    ELSE 10000000

\* the preferred market cap read back from a stored ceiling
PreferredMarketCap(marketCap) ==
    IF marketCap < 200000 THEN "ultra-low"
    ELSE IF marketCap < 2000000 THEN "low"
    ELSE "medium"

\* x || d on a number: 0 is replaced by the default
OrDefault(x, d) == IF x = 0 THEN d ELSE x

\* the row createHivemindStrategy is given
StrategyRow(strategy) ==
    [marketCondition |-> strategy.marketSentiment,
     recommendedMaxMarketCap |->
         RecommendedMaxMarketCap(strategy.preferredMarketCap),
     recommendedMinConfidence |-> strategy.minConfidenceThreshold,
     maxDailyTrades |-> strategy.maxDailyTrades,
     recommendedRiskTolerance |-> strategy.riskLevel,
     validUntil |-> clockHours + VALID_HOURS,
     isActive |-> TRUE]

\* the strategy a row is mapped back to
RowStrategy(row) ==
    [marketSentiment |-> row.marketCondition,
     preferredMarketCap |-> PreferredMarketCap(row.recommendedMaxMarketCap),
     minConfidenceThreshold |-> OrDefault(row.recommendedMinConfidence, 55),
     maxDailyTrades |-> OrDefault(row.maxDailyTrades, 5),
     riskLevel |-> row.recommendedRiskTolerance]

\* a row that is not usable any more: validUntil > new Date() is strict
StrategyExpired(row) == ~(row.validUntil > clockHours)

\* strategies.find(...): the first row that is active and not expired
RECURSIVE FindLatest(_)
FindLatest(rows) ==
    IF rows = <<>> THEN NoStrategy
    ELSE IF Head(rows).isActive /\ ~StrategyExpired(Head(rows))
         THEN RowStrategy(Head(rows))
         ELSE FindLatest(Tail(rows))

\* saveHivemindStrategy: one insert, or an exception with nothing written
SaveHivemindStrategy(strategy, dbFails) ==
    /\ Len(hivemindStrategies) < MaxCommits
    /\ IF dbFails
       THEN UNCHANGED <<hivemindStrategies, committed>>
       ELSE /\ hivemindStrategies' =
                  <<StrategyRow(strategy)>> \o hivemindStrategies
            /\ committed' = strategy
    /\ UNCHANGED <<clockHours, latest>>
    /\ StrategyFrame

\* getLatestStrategy
GetLatestStrategy ==
    /\ latest' = [asked |-> TRUE,
                  result |-> FindLatest(hivemindStrategies),
                  committed |-> committed]
    /\ UNCHANGED <<hivemindStrategies, clockHours, committed>>
    /\ StrategyFrame

\* an hour passes
HourPasses ==
    /\ clockHours < MaxHours
    /\ clockHours' = clockHours + 1
    /\ UNCHANGED <<hivemindStrategies, committed, latest>>
    /\ StrategyFrame

\* an empty table, nothing asked yet
StrategyInit ==
    /\ hivemindStrategies = <<>>
    /\ clockHours = 0
    /\ committed = NoStrategy
    /\ latest = [asked |-> FALSE, result |-> NoStrategy,
                 committed |-> NoStrategy]

\* ------------------------------------------------------ strategy generator

\* budgetPerTrade is in 10^-3 SOL, profitTargetMultiplier in hundredths.

\* the parameters the switch on the sentiment assigns
SentimentCase(sentiment) ==
    CASE sentiment = "bullish" ->
           [marketSentiment |-> sentiment, preferredMarketCap |-> "low",
            minConfidenceThreshold |-> 65, maxDailyTrades |-> 5,
            profitTargetMultiplier |-> 120, riskLevel |-> "moderate",
            budgetPerTrade |-> 40, minVolumeUSD |-> 10000,
            minLiquidityUSD |-> 6000, minOrganicScore |-> 45,
            minQualityScore |-> 35, minTransactions24h |-> 25,
            minPotentialPercent |-> 35]
      [] sentiment = "bearish" ->
           [marketSentiment |-> sentiment, preferredMarketCap |-> "medium",
            minConfidenceThreshold |-> 80, maxDailyTrades |-> 2,
            profitTargetMultiplier |-> 40, riskLevel |-> "conservative",
            budgetPerTrade |-> 20, minVolumeUSD |-> 50000,
            minLiquidityUSD |-> 25000, minOrganicScore |-> 65,
            minQualityScore |-> 55, minTransactions24h |-> 60,
            minPotentialPercent |-> 20]
      [] sentiment = "volatile" ->
           [marketSentiment |-> sentiment, preferredMarketCap |-> "low",
            minConfidenceThreshold |-> 72, maxDailyTrades |-> 3,
            profitTargetMultiplier |-> 60, riskLevel |-> "conservative",
            budgetPerTrade |-> 30, minVolumeUSD |-> 20000,
            minLiquidityUSD |-> 10000, minOrganicScore |-> 55,
            minQualityScore |-> 45, minTransactions24h |-> 35,
            minPotentialPercent |-> 30]
      [] OTHER ->
           [marketSentiment |-> sentiment, preferredMarketCap |-> "low",
            minConfidenceThreshold |-> 68, maxDailyTrades |-> 3,
            profitTargetMultiplier |-> 80, riskLevel |-> "conservative",
            budgetPerTrade |-> 30, minVolumeUSD |-> 15000,
            minLiquidityUSD |-> 8000, minOrganicScore |-> 50,
            minQualityScore |-> 40, minTransactions24h |-> 30,
            minPotentialPercent |-> 25]

\* generateStrategyFromSentiment: the sentiment's parameters, made more
\* aggressive at a confidence of 85 and over, more careful under 55
GenerateStrategyFromSentiment(sentiment, confidence) ==
    LET base == SentimentCase(sentiment) IN
    IF confidence >= 85 THEN
        [base EXCEPT
            !.maxDailyTrades = Min(8, @ + 3),
            !.minConfidenceThreshold = Max(55, @ - 10),
            !.budgetPerTrade = (@ * 15) \div 10,
            !.profitTargetMultiplier = (@ * 13) \div 10,
            !.riskLevel = IF sentiment = "bearish" THEN "moderate"
                          ELSE "aggressive"]
    ELSE IF confidence < 55 THEN
        [base EXCEPT
            !.maxDailyTrades = Max(1, @ - 1),
            !.minConfidenceThreshold = Min(85, @ + 10),
            !.budgetPerTrade = (@ * 7) \div 10,
            !.profitTargetMultiplier = (@ * 8) \div 10]
    ELSE base

\* no recentPerformance argument
NoPerformance ==
    [given |-> FALSE, winRate |-> 0, avgProfit |-> 0, totalTrades |-> 0]

\* the sentiment and the confidence generateHivemindStrategy reads from the
\* recent performance
MarketSentiment(recentPerformance) ==
    LET winRate == recentPerformance.winRate
        avgProfit == recentPerformance.avgProfit
    IN
    IF recentPerformance.given /\ recentPerformance.totalTrades >= 5 THEN
        IF winRate > 60 /\ avgProfit > 20 THEN
            [marketSentiment |-> "bullish", confidence |-> 75]
        ELSE IF winRate < 40 \/ avgProfit < 0 THEN
            [marketSentiment |-> "bearish", confidence |-> 70]
        ELSE IF Abs(avgProfit) > 30 THEN
            [marketSentiment |-> "volatile", confidence |-> 65]
        ELSE [marketSentiment |-> "neutral", confidence |-> 60]
    ELSE [marketSentiment |-> "neutral", confidence |-> 60]

\* generateHivemindStrategy(ownerWalletAddress, recentPerformance)
GenerateHivemindStrategy ==
    LET assessed == MarketSentiment(generation.recentPerformance) IN
    /\ ~generation.done
    /\ generation' = [generation EXCEPT
           !.done = TRUE,
           !.confidence = assessed.confidence,
           !.strategy = GenerateStrategyFromSentiment(
                            assessed.marketSentiment, assessed.confidence)]
    /\ GenFrame

\* a strategy about to be generated from a recent performance
Regeneration(recentPerformance) ==
    [recentPerformance |-> recentPerformance, done |-> FALSE,
     confidence |-> 0, strategy |-> SentimentCase("neutral")]

\* recentPerformance.totalTrades: under and at the five trades that count
TotalTrades == {3, 5, 10}
\* recentPerformance.winRate, around 40 and 60
WinRates == {30, 39, 40, 50, 60, 61, 70}
\* recentPerformance.avgProfit, around 0, 20 and 30
AvgProfits == {-31, -5, 0, 10, 20, 21, 30, 31, 40}

\* a call with every recent performance, or with none
GenerationPending ==
    generation \in
        {Regeneration(NoPerformance)} \cup
        {Regeneration([given |-> TRUE, winRate |-> winRate,
                       avgProfit |-> avgProfit, totalTrades |-> trades]) :
            winRate \in WinRates, avgProfit \in AvgProfits,
            trades \in TotalTrades}

\* no strategy is being generated
GenInit == generation = [Regeneration(NoPerformance) EXCEPT !.done = TRUE]

\* ---------------------------------------------------- strategy evaluators

\* A confidence is an exact fraction num / den with den > 0.
\* Math.min(95, num / den)
Confidence(num, den) == [num |-> Min(num, 95 * den), den |-> den]

\* current.confidence > prev.confidence
Higher(current, prev) ==
    current.confidence.num * prev.confidence.den
        > prev.confidence.num * current.confidence.den

\* return null
NoSignal ==
    [strategy |-> "none", action |-> "none", confidence |-> Confidence(0, 1),
     positionSizePercent |-> 0, profitTarget |-> 0, stopLoss |-> 0]

\* A StrategySignal; stopLoss is in tenths of a percent, the grid's being one
\* and a half times its price gap.
Signal(strategy, action, confidence, size, profitTarget, stopLoss) ==
    [strategy |-> strategy, action |-> action, confidence |-> confidence,
     positionSizePercent |-> size, profitTarget |-> profitTarget,
     stopLoss |-> stopLoss]

\* a SELL signal: the whole position, no targets
SellSignal(strategy, confidence) ==
    Signal(strategy, "SELL", confidence, 100, 0, 0)

\* currentPosition is undefined
NoPosition ==
    [present |-> FALSE, strategyType |-> "none", peakProfitPercent |-> 0,
     lastCheckProfitPercent |-> 0]

\* hasBollingerData
HasBollingerData(token) ==
    /\ token.bollingerLower >= MIN_VALID_PRICE
    /\ token.bollingerUpper >= MIN_VALID_PRICE
    /\ token.priceSOL >= MIN_VALID_PRICE
    /\ token.bollingerUpper > token.bollingerLower

\* currentPrice >= band * (1 - BOLLINGER_TOLERANCE) and
\* currentPrice <= band * (1 + BOLLINGER_TOLERANCE)
InWindow(price, band) ==
    /\ price * 100 >= band * (100 - BOLLINGER_TOLERANCE)
    /\ price * 100 <= band * (100 + BOLLINGER_TOLERANCE)

\* NearLowerBand with the window left out
NearLowerBandUnchecked(token) == HasBollingerData(token)

\* nearLowerBand
NearLowerBand(token) ==
    HasBollingerData(token) /\ InWindow(token.priceSOL, token.bollingerLower)

\* nearUpperBand
NearUpperBand(token) ==
    HasBollingerData(token) /\ InWindow(token.priceSOL, token.bollingerUpper)

\* evaluateMeanReversion(token, config, currentPosition)
EvaluateMeanReversion(token, config, position) ==
    LET oversold == config.meanReversionRSIOversold
        overbought == config.meanReversionRSIOverbought
        room == 100 - overbought
        atSupportBonus == IF NearLowerBand(token) THEN 10 ELSE 0
        atResistanceBonus == IF NearUpperBand(token) THEN 10 ELSE 0
    IN
    IF ~config.meanReversionEnabled THEN NoSignal
    ELSE IF token.rsi < oversold /\ ~position.present
    THEN IF HasBollingerData(token) /\ ~NearLowerBand(token) THEN NoSignal
         ELSE Signal("MEAN_REVERSION", "BUY",
                     Confidence(60 * oversold + (oversold - token.rsi) * 35
                                    + atSupportBonus * oversold, oversold),
                     config.meanReversionPositionSizePercent,
                     config.meanReversionProfitTargetPercent,
                     config.meanReversionStopLossPercent * 10)
    ELSE IF token.rsi > overbought /\ position.present
    THEN IF HasBollingerData(token) /\ ~NearUpperBand(token) THEN NoSignal
         ELSE SellSignal("MEAN_REVERSION",
                         Confidence(65 * room + (token.rsi - overbought) * 30
                                        + atResistanceBonus * room, room))
    ELSE NoSignal

\* volume24h >= baseVolume * config.momentumBreakoutVolumeMultiplier
VolumeIsHigh(token, config) ==
    token.volume24h >= 50000 * config.momentumBreakoutVolumeMultiplier

\* NotAtPeak without the test
NotAtPeakUnchecked(token) == TRUE

\* notAtPeak
NotAtPeak(token) == token.priceChange24h < 30

\* the BUY condition of evaluateMomentumBreakout
MomentumBuy(token, config, position) ==
    /\ token.priceChange1h >= config.momentumBreakoutPriceChangePercent
    /\ VolumeIsHigh(token, config)
    /\ token.priceChange24h < token.priceChange1h
    /\ NotAtPeak(token)
    /\ ~position.present

\* TrailingStop with the peak never high enough
TrailingStopNever(position) == FALSE

\* peakProfit >= 15 && currentProfit < peakProfit * 0.5
TrailingStop(position) ==
    /\ position.peakProfitPercent >= 15
    /\ 2 * position.lastCheckProfitPercent < position.peakProfitPercent

\* evaluateMomentumBreakout(token, config, currentPosition); the price change
\* threshold of the configuration is positive
EvaluateMomentumBreakout(token, config, position) ==
    LET threshold == config.momentumBreakoutPriceChangePercent IN
    IF ~config.momentumBreakoutEnabled THEN NoSignal
    ELSE IF MomentumBuy(token, config, position)
    THEN Signal("MOMENTUM_BREAKOUT", "BUY",
                Confidence(65 * threshold + token.priceChange1h * 15
                               + 5 * threshold, threshold),
                config.momentumBreakoutPositionSizePercent,
                config.momentumBreakoutProfitTargetPercent,
                config.momentumBreakoutStopLossPercent * 10)
    ELSE IF position.present /\ position.strategyType = "MOMENTUM_BREAKOUT"
    THEN IF position.lastCheckProfitPercent
                >= config.momentumBreakoutProfitTargetPercent
         THEN SellSignal("MOMENTUM_BREAKOUT", Confidence(95, 1))
         ELSE IF TrailingStop(position)
         THEN SellSignal("MOMENTUM_BREAKOUT", Confidence(90, 1))
         ELSE IF token.priceChange1h < -5
         THEN SellSignal("MOMENTUM_BREAKOUT", Confidence(85, 1))
         ELSE NoSignal
    ELSE NoSignal

\* IsRanging whatever the market
IsRangingAlways(token) == TRUE

\* isRanging
IsRanging(token) ==
    Abs(token.priceChange1h) < 5 /\ Abs(token.priceChange24h) < 15

\* evaluateGridTrading(token, config, currentPosition, currentPrice);
\* currentPrice is not read
EvaluateGridTrading(token, config, position) ==
    IF ~config.gridTradingEnabled THEN NoSignal
    ELSE IF ~IsRanging(token) THEN NoSignal
    ELSE IF token.priceChange1h < -2 /\ token.priceChange1h > -8
            /\ ~position.present
    THEN Signal("GRID_TRADING", "BUY", Confidence(75, 1),
                config.gridTradingPerLevelSizePercent,
                config.gridTradingPriceGapPercent,
                config.gridTradingPriceGapPercent * 15)
    ELSE IF /\ position.present /\ position.strategyType = "GRID_TRADING"
            /\ position.lastCheckProfitPercent
                   >= config.gridTradingPriceGapPercent
    THEN SellSignal("GRID_TRADING", Confidence(80, 1))
    ELSE NoSignal

\* Best keeping the last of the signals
BestLast(signals) == signals[Len(signals)]

\* signals.reduce((prev, current) =>
\*     current.confidence > prev.confidence ? current : prev)
RECURSIVE Best(_)
Best(signals) ==
    IF Len(signals) = 1 THEN signals[1]
    ELSE LET prev == Best(SubSeq(signals, 1, Len(signals) - 1))
             current == signals[Len(signals)]
         IN IF Higher(current, prev) THEN current ELSE prev

\* the signals pushed: the strategies' answers that are not null
Signals(meanReversion, momentum, grid) ==
    SelectSeq(<<meanReversion, momentum, grid>>,
              LAMBDA signal : signal # NoSignal)

\* the choice evaluateAllStrategies makes among the signals
ChooseSignal(signals, position) ==
    LET sellSignals == SelectSeq(signals, LAMBDA s : s.action = "SELL")
        buySignals == SelectSeq(signals, LAMBDA s : s.action = "BUY")
    IN IF signals = <<>> THEN NoSignal
       ELSE IF position.present /\ sellSignals # <<>> THEN Best(sellSignals)
       ELSE IF buySignals # <<>> THEN Best(buySignals)
       ELSE NoSignal

\* evaluateAllStrategies(token, config, currentPosition, currentPrice) on the
\* pending arguments
EvaluateAllStrategies ==
    LET token == evaluation.token
        config == evaluation.config
        position == evaluation.position
        meanReversion == EvaluateMeanReversion(token, config, position)
        momentum == EvaluateMomentumBreakout(token, config, position)
        grid == EvaluateGridTrading(token, config, position)
    IN
    /\ ~evaluation.done
    /\ evaluation' = [evaluation EXCEPT
           !.done = TRUE,
           !.meanReversion = meanReversion,
           !.momentum = momentum,
           !.grid = grid,
           !.best = ChooseSignal(Signals(meanReversion, momentum, grid),
                                 position)]
    /\ EvalFrame

\* a token's market data
Token(rsi, priceSOL, lower, upper, change1h, change24h, volume24h) ==
    [rsi |-> rsi, priceSOL |-> priceSOL, bollingerLower |-> lower,
     bollingerUpper |-> upper, priceChange1h |-> change1h,
     priceChange24h |-> change24h, volume24h |-> volume24h]

\* a StrategyConfig with the given strategies enabled: RSI 30 and 70, a 1h
\* change of 15% on twice the base volume with a 20% profit target, a grid
\* gap of 5%
Config(strategies) ==
    [meanReversionEnabled |-> "MEAN_REVERSION" \in strategies,
     meanReversionRSIOversold |-> 30,
     meanReversionRSIOverbought |-> 70,
     meanReversionPositionSizePercent |-> 5,
     meanReversionProfitTargetPercent |-> 10,
     meanReversionStopLossPercent |-> 8,
     momentumBreakoutEnabled |-> "MOMENTUM_BREAKOUT" \in strategies,
     momentumBreakoutPriceChangePercent |-> 15,
     momentumBreakoutVolumeMultiplier |-> 2,
     momentumBreakoutPositionSizePercent |-> 7,
     momentumBreakoutProfitTargetPercent |-> 20,
     momentumBreakoutStopLossPercent |-> 10,
     gridTradingEnabled |-> "GRID_TRADING" \in strategies,
     gridTradingLevels |-> 5,
     gridTradingPriceGapPercent |-> 5,
     gridTradingPerLevelSizePercent |-> 2]

\* an open position
Position(strategyType, peak, profit) ==
    [present |-> TRUE, strategyType |-> strategyType,
     peakProfitPercent |-> peak, lastCheckProfitPercent |-> profit]

\* arguments about to be evaluated
Pending(token, config, position) ==
    [token |-> token, config |-> config, position |-> position,
     done |-> FALSE, meanReversion |-> NoSignal, momentum |-> NoSignal,
     grid |-> NoSignal, best |-> NoSignal]

\* token.rsi: oversold, at the thresholds, neutral (or absent), overbought
RsiValues == {20, 29, 30, 50, 71, 80}
\* token.priceSOL in units of 10^-9 SOL: none, and prices around bands of 100
\* and 200
BandPrices == {0, 84, 85, 100, 115, 116, 130, 200}
\* token.bollingerLower and token.bollingerUpper: absent, valid, not apart,
\* upper absent
Bands == {<<0, 0>>, <<100, 200>>, <<100, 100>>, <<100, 0>>}

\* mean reversion about to be asked about a token
MeanReversionPending ==
    evaluation \in
        {Pending(Token(rsi, price, bands[1], bands[2], 0, 0, 0),
                 Config(strategies), position) :
            rsi \in RsiValues, price \in BandPrices, bands \in Bands,
            strategies \in {{}, {"MEAN_REVERSION"}},
            position \in {NoPosition, Position("MEAN_REVERSION", 0, 0)}}

\* token.priceChange1h, in percent: reversing, flat, around the threshold
Changes1h == {-6, -5, 0, 14, 15, 20, 40}
\* token.priceChange24h, in percent: a dip, below the 1h change, around 30
Changes24h == {-10, 10, 15, 20, 29, 30, 50}
\* token.volume24h in USD: none, just under and at twice the base volume
Volumes24h == {0, 99999, 100000}
\* peakProfitPercent and lastCheckProfitPercent of an open position
ProfitPairs ==
    {<<0, 0>>, <<14, 6>>, <<15, 7>>, <<15, 8>>, <<30, 14>>, <<30, 15>>,
     <<20, 20>>, <<25, 19>>, <<15, -5>>}

\* momentum breakout about to be asked about a token
MomentumPending ==
    evaluation \in
        {Pending(Token(50, 0, 0, 0, change1h, change24h, volume24h),
                 Config(strategies), position) :
            change1h \in Changes1h, change24h \in Changes24h,
            volume24h \in Volumes24h,
            strategies \in {{}, {"MOMENTUM_BREAKOUT"}},
            position \in {NoPosition, Position("GRID_TRADING", 0, 0)}
                \cup {Position("MOMENTUM_BREAKOUT", pair[1], pair[2]) :
                          pair \in ProfitPairs}}

\* token.priceChange1h around the grid's entry zone and the ranging limit
GridChanges1h == {-8, -6, -5, -4, -3, -2, 0, 4, 5}
\* token.priceChange24h around the ranging limit
GridChanges24h == {-15, -14, 0, 14, 15}
\* lastCheckProfitPercent of an open grid position, around the price gap
GridProfits == {0, 4, 5, 6}

\* grid trading about to be asked about a token
GridPending ==
    evaluation \in
        {Pending(Token(50, 0, 0, 0, change1h, change24h, 0),
                 Config(strategies), position) :
            change1h \in GridChanges1h, change24h \in GridChanges24h,
            strategies \in {{}, {"GRID_TRADING"}},
            position \in {NoPosition, Position("MOMENTUM_BREAKOUT", 6, 6)}
                \cup {Position("GRID_TRADING", profit, profit) :
                          profit \in GridProfits}}

\* tokens on which more than one strategy can answer: RSI oversold, neutral,
\* overbought; no bands, the price at the lower band, at the upper band; a
\* reversal, a small dip, a flat hour, a breakout at and above the threshold
AllTokens ==
    {Token(rsi, band[1], band[2], band[3], change1h, change24h, 100000) :
        rsi \in {20, 50, 80},
        band \in {<<0, 0, 0>>, <<100, 100, 200>>, <<200, 100, 200>>},
        change1h \in {-6, -3, 0, 15, 40}, change24h \in {0, 10}}

\* no position, or one of each strategy, at and short of its exit
AllPositions ==
    {NoPosition, Position("MEAN_REVERSION", 0, 0),
     Position("MOMENTUM_BREAKOUT", 0, 0), Position("MOMENTUM_BREAKOUT", 30, 14),
     Position("MOMENTUM_BREAKOUT", 20, 20), Position("GRID_TRADING", 0, 0),
     Position("GRID_TRADING", 5, 5)}

\* the three strategies about to be asked about a token
AllPending ==
    evaluation \in
        {Pending(token, Config(strategies), position) :
            token \in AllTokens, strategies \in SUBSET Strategies,
            position \in AllPositions}

\* nothing is being evaluated
EvalInit ==
    evaluation = [Pending(Token(50, 0, 0, 0, 0, 0, 0), Config({}), NoPosition)
                      EXCEPT !.done = TRUE]

\* ---------------------------------------------------------- specifications

\* one wallet with no position, one quorum, no bot run
TradeStart ==
    /\ TradeInit
    /\ solBalance = 200000 /\ held = {} /\ feeExempt = FALSE

\* no hivemind cycle yet, a quorum of two
HiveStart == HiveInit /\ minQuorum = 2

\* no tool has been called
ToolInit == BundleInit /\ SellInit /\ StrategyInit /\ EvalInit /\ GenInit

Init == TradeInit /\ HiveStart /\ SchedStart /\ ToolInit

\* The executor and the store: two mints, two strategies, failing storage
\* calls; the holdings are worth nothing or 8 SOL.
Next ==
    \/ ExecuteStrategyTrade(Mints, TradedStrategies, {5}, {0, 800000},
                            {"none", "create", "update"})
    \/ CloseAllPositions
    \/ MonitorExit({0, 800000})

Spec == Init /\ [][Next]_vars

\* Sizing and drawdown: one mint and one strategy, with every position size
\* and every valuation of the holdings.
SizingNext ==
    \/ ExecuteStrategyTrade({"m1"}, {"MEAN_REVERSION"}, SizePercents,
                            HoldingValues, {"none"})
    \/ CloseAllPositions
    \/ MonitorExit({0, 800000})

SizingSpec == Init /\ [][SizingNext]_vars

\* The circuit breaker over time: quick and deep scans whose providers
\* either fail or vote to buy.
BreakerNext ==
    \/ HivemindCycle({"quick", "deep"},
                     {ErrorVote, [action |-> "buy", confidence |-> 90]})
    \/ Tick

BreakerInit == TradeStart /\ HiveStart /\ SchedStart /\ ToolInit

BreakerSpec == BreakerInit /\ [][BreakerNext]_vars

\* The consensus of one deep scan, over every vote and every quorum.
ConsensusNext == HivemindCycle({"deep"}, VoteValues \cup {ErrorVote})

ConsensusInit == TradeStart /\ HiveInit /\ SchedStart /\ ToolInit

ConsensusSpec == ConsensusInit /\ [][ConsensusNext]_vars

\* The scheduler: the cron job, manual triggers and the calls in flight.
SchedNext ==
    \/ RunAITradingBots
    \/ \E project \in Projects : TriggerAIBotManually(project)
    \/ NothingToRun
    \/ \E i \in 1..Len(runs) : RunSetup(i)
    \/ \E i \in 1..Len(runs) : RunAnalyze(i)
    \/ \E i \in 1..Len(runs) : RunBuy(i)
    \/ \E i \in 1..Len(runs) : RunRecord(i)
    \/ \E i \in 1..Len(runs) : RunStatus(i)
    \/ NewDay

SchedStartAll == TradeStart /\ HiveStart /\ SchedInit /\ ToolInit

SchedSpec == SchedStartAll /\ [][SchedNext]_vars

\* Bundle detection on its own.
DetectNext == DetectBundleActivity

DetectInit ==
    /\ TradeStart /\ HiveStart /\ SchedStart
    /\ DetectionPending
    /\ SellInit
    /\ StrategyInit
    /\ EvalInit /\ GenInit
    /\ tokenBlacklist = {}
    /\ lastCheck = [op |-> "none", tokenMint |-> "none", listed |-> FALSE,
                    result |-> FALSE]

DetectSpec == DetectInit /\ [][DetectNext]_vars

\* The sell rule on its own.
SellNext == CheckSell

SellStart ==
    /\ TradeStart /\ HiveStart /\ SchedStart
    /\ BundleInit
    /\ StrategyInit
    /\ EvalInit /\ GenInit
    /\ SellPending

SellSpec == SellStart /\ [][SellNext]_vars

\* The token blacklist on its own.
BlacklistNext ==
    \/ \E mint \in ListedMints, severity \in {"warning", "critical"},
          dbFails \in BOOLEAN : AddToBlacklist(mint, severity, dbFails)
    \/ \E mint \in ListedMints : RemoveFromBlacklist(mint)
    \/ \E mint \in ListedMints, dbFails \in BOOLEAN :
           IsTokenBlacklisted(mint, dbFails)

BlacklistInit == TradeStart /\ HiveStart /\ SchedStart /\ ToolInit

BlacklistSpec == BlacklistInit /\ [][BlacklistNext]_vars

\* The hivemind strategy store over time: saves that may fail, reads, hours.
StrategyNext ==
    \/ \E strategy \in GeneratedStrategies, dbFails \in BOOLEAN :
           SaveHivemindStrategy(strategy, dbFails)
    \/ GetLatestStrategy
    \/ HourPasses

StrategyStart == TradeStart /\ HiveStart /\ SchedStart /\ ToolInit

StrategySpec == StrategyStart /\ [][StrategyNext]_vars

\* The liquidity left after a buy: a wallet whose holdings are worth nothing
\* or 17 SOL.
ReserveNext ==
    \/ ExecuteStrategyTrade({"m1"}, {"MEAN_REVERSION"}, SizePercents,
                            ReserveHoldingValues, {"none"})
    \/ CloseAllPositions
    \/ MonitorExit(ReserveHoldingValues)

ReserveInit == TradeInit /\ HiveStart /\ SchedStart /\ ToolInit

ReserveSpec == ReserveInit /\ [][ReserveNext]_vars

\* Cron cycles with failing calls where a project has its bot enabled; where
\* none has, the wallet trades through the executor, whose storage calls
\* fail. The two share no state.
CycleNext ==
    \/ RunAITradingBots
    \/ \E i \in 1..Len(runs) : RunSetup(i)
    \/ \E i \in 1..Len(runs) : RunAnalyze(i)
    \/ \E i \in 1..Len(runs) : RunBuy(i)
    \/ \E i \in 1..Len(runs) : RunRecord(i)
    \/ \E i \in 1..Len(runs) : RunStatus(i)
    \/ /\ enabled = {}
       /\ ExecuteStrategyTrade({"m1"}, {"MEAN_REVERSION"}, {5}, {0},
                               {"none", "create", "update"})

CycleInit ==
    /\ TradeInit /\ held = {} /\ feeExempt = FALSE
    /\ HiveStart /\ SchedInit /\ ToolInit
    /\ enabled # {} => solBalance = 200000

CycleSpec == CycleInit /\ [][CycleNext]_vars

\* Mean reversion on its own.
EvalNext == EvaluateAllStrategies

MeanReversionInit ==
    /\ TradeStart /\ HiveStart /\ SchedStart
    /\ BundleInit /\ SellInit /\ StrategyInit /\ GenInit
    /\ MeanReversionPending

MeanReversionSpec == MeanReversionInit /\ [][EvalNext]_vars

\* Momentum breakout on its own.
MomentumInit ==
    /\ TradeStart /\ HiveStart /\ SchedStart
    /\ BundleInit /\ SellInit /\ StrategyInit /\ GenInit
    /\ MomentumPending

MomentumSpec == MomentumInit /\ [][EvalNext]_vars

\* Grid trading on its own.
GridInit ==
    /\ TradeStart /\ HiveStart /\ SchedStart
    /\ BundleInit /\ SellInit /\ StrategyInit /\ GenInit
    /\ GridPending

GridSpec == GridInit /\ [][EvalNext]_vars

\* The strategy generator on its own.
GenNext == GenerateHivemindStrategy

GenStart ==
    /\ TradeStart /\ HiveStart /\ SchedStart
    /\ BundleInit /\ SellInit /\ StrategyInit /\ EvalInit
    /\ GenerationPending

GenSpec == GenStart /\ [][GenNext]_vars

\* The three strategies together.
AllInit ==
    /\ TradeStart /\ HiveStart /\ SchedStart
    /\ BundleInit /\ SellInit /\ StrategyInit /\ GenInit
    /\ AllPending

AllSpec == AllInit /\ [][EvalNext]_vars

\* ------------------------------------------------------------------ claims

\* The position the last executeStrategyTrade created, if it created one.
OpenedPosition == {p \in positions : last.op = "trade" /\ p.id = last.id}

\* C1: a position opened by executeStrategyTrade has amountSOL at most 15% of
\* the available balance (the wallet balance less the fee buffer
\* max(0.03 SOL, 5% of the portfolio value)) and at most positionSizePercent%
\* of the portfolio value, both as read when the position was opened.
C1_PositionSizeCeiling ==
    \A p \in OpenedPosition :
        LET feeBuffer == Max(3000, (last.total * 5) \div 100)
            available == last.balance - feeBuffer
        IN /\ p.amountSOL * 100 <= available * 15
           /\ p.amountSOL * 100 <= last.total * last.pct

\* C1 witness: a position was opened whose size the 15% ceiling decided.
C1_Witness ==
    \E p \in OpenedPosition :
        /\ last.stage = "opened"
        /\ p.amountSOL * 100 < last.total * last.pct - 100

\* C3, as claimed: an evaluation leaves a paused wallet paused while the
\* value is more than 15% below the highest value the portfolio ever had, and
\* leaves an unpaused wallet unpaused while the value is less than 20% below
\* it; between evaluations drawdownPaused does not change.
C3_DrawdownHysteresis ==
    [][ IF last'.op = "trade"
        THEN LET value == last'.total
                 peak == highWaterMark'
             IN /\ (drawdownPaused /\ value * 100 < peak * 85) => drawdownPaused'
                /\ (~drawdownPaused /\ value * 100 > peak * 80) => ~drawdownPaused'
        ELSE drawdownPaused' = drawdownPaused ]_vars

\* C4: an executeStrategyTrade that finds the drawdown pause active submits
\* no buy order, takes no platform fee and creates no position.
C4_NoBuyWhilePaused ==
    [][ (last'.op = "trade" /\ drawdownPaused') =>
            /\ buyOrders' = buyOrders
            /\ platformFeesPaid' = platformFeesPaid
            /\ positions' = positions
            /\ solBalance' = solBalance ]_vars

\* C4 witness: executeStrategyTrade was called for a paused wallet after an
\* earlier buy.
C4_Witness ==
    /\ last.op = "trade"
    /\ last.stage = "blocked"
    /\ drawdownPaused
    /\ buyOrders > 0

\* C2, as claimed: at most one open position record per (wallet, mint).
C2_OnePositionPerMint ==
    \A p, q \in positions : p.tokenMint = q.tokenMint => p.id = q.id

\* C8, as claimed: every position that left the store has exactly one
\* journal entry.
C8_OneJournalEntryPerClose ==
    \A id \in removed :
        Cardinality({i \in 1..Len(journal) : journal[i] = id}) = 1

\* C9, as claimed: a buy that the trade executor fails leaves no partial
\* state: no position, no change of activePositions or of the trade counters,
\* no platform fee taken.
C9_FailedBuyLeavesNothing ==
    [][ (last'.op = "trade" /\ last'.stage = "buy_failed") =>
            /\ positions' = positions
            /\ activePositions' = activePositions
            /\ totalTrades' = totalTrades
            /\ strategyTradeCount' = strategyTradeCount
            /\ platformFeesPaid' = platformFeesPaid ]_vars

\* C10, as claimed: closeAllPositions removes a position record only if the
\* sell of its token succeeded.
C10_RemovedOnlyIfSold ==
    [][ (last'.op = "closeAll") =>
            \A p \in positions \ positions' :
                p.tokenMint \in held \ held' ]_vars

\* C5: a provider in its cooldown is not called, casts no vote and is not
\* counted as failing; a provider of the panel that is not in its cooldown is
\* called; the cooldown starts exactly at the third consecutive failure and
\* ends 5 minutes later; the passing of time changes neither counter.
C5_CooldownExact ==
    [][ IF now' = now
        THEN \A p \in Providers :
               /\ now < disabledUntil[p] =>
                      /\ p \notin called'
                      /\ votes'[p].action = "absent"
                      /\ failures'[p] = failures[p]
                      /\ disabledUntil'[p] = disabledUntil[p]
               /\ (now >= disabledUntil[p] /\ p \in Panel(scan')) => p \in called'
               /\ disabledUntil'[p] # disabledUntil[p] <=>
                      (p \in called' /\ votes'[p].action = "error"
                                     /\ failures[p] = 2)
               /\ disabledUntil'[p] # disabledUntil[p] =>
                      disabledUntil'[p] = now + 5
        ELSE disabledUntil' = disabledUntil /\ failures' = failures ]_vars

\* C5 witness: a provider that was disabled is called again, its cooldown
\* over, and votes.
C5_Witness ==
    \E p \in Providers :
        /\ disabledUntil[p] > 0
        /\ now >= disabledUntil[p]
        /\ p \in called
        /\ votes[p].action = "buy"

\* C6: with fewer usable votes than the configured minimum, the consensus is
\* hold.
C6_QuorumOrHold ==
    Cardinality({p \in Providers : votes[p].action \in {"buy", "sell", "hold"}})
        < minQuorum
    => consensus.action = "hold"

\* C6 witness: a deep scan got one usable vote, a buy at 90%, below a quorum
\* of two, and the consensus is hold.
C6_Witness ==
    /\ scan = "deep"
    /\ minQuorum = 2
    /\ {votes[p] : p \in called} =
           {ErrorVote, [action |-> "buy", confidence |-> 90]}
    /\ Cardinality({p \in Providers : votes[p].action = "buy"}) = 1
    /\ consensus.action = "hold"

\* C7, as claimed: at most one executeAITradingBot call per project is in
\* flight at any time.
C7_OneRunPerProject ==
    \A q \in Projects :
        Cardinality({i \in 1..Len(runs) : runs[i].project = q}) <= 1

\* C11, as claimed: the stored portfolio peak never decreases, whatever the
\* operation, closeAllPositions included.
C11_PeakNeverDecreases ==
    [][portfolioPeakSOL' >= portfolioPeakSOL]_vars

\* C12, as claimed: a check of a mint that has a blacklist row answers true.
C12_BlacklistedStaysBlocked ==
    (lastCheck.op = "check" /\ lastCheck.listed) => lastCheck.result

C19_ScenarioScore ==
    ( /\ detection.result.outcome = "analysed"
      /\ detection.data.profile.present
      /\ detection.data.profile.organicScore = 15
      /\ detection.data.profile.qualityScore = 20
      /\ detection.data.market.volume24h = 2000000
      /\ detection.data.pairCreatedAt = detection.nowMs - 86400000 )
    => /\ detection.result.score >= 85
       /\ detection.result.severity = "critical"

\* C20: the score of an analysed token is the sum of the weights of the
\* signals its data triggers, capped at 100, and every score is in 0..100.
C20_ScoreIsCappedSum ==
    LET d == detection.data
        organic == IF d.profile.present THEN d.profile.organicScore ELSE 50
        quality == IF d.profile.present THEN d.profile.qualityScore ELSE 50
        txs == d.txns.buys + d.txns.sells
        w1 == IF organic < 30 THEN 40 ELSE IF organic < 50 THEN 20 ELSE 0
        w2 == IF quality < 30 THEN 30 ELSE IF quality < 50 THEN 15 ELSE 0
        w3 == IF txs > 1000 /\ organic < 40 THEN 25 ELSE 0
        w4 == IF txs > 100 /\ (d.txns.buys * 100 > txs * 85
                                \/ d.txns.buys * 100 < txs * 15)
              THEN 20 ELSE 0
        w5 == IF d.market.liquidityUSD > 0
                  /\ d.market.volume24h > d.market.liquidityUSD * 20
              THEN 20 ELSE 0
        w6 == IF d.pairCreatedAt # 0
                  /\ detection.nowMs - d.pairCreatedAt < 86400000
                  /\ d.market.volume24h > 100000 /\ organic < 50
              THEN 25 ELSE 0
        w7 == IF d.priceChange.h1 > 50 \/ d.priceChange.h1 < -50
                  \/ d.priceChange.h24 > 100 \/ d.priceChange.h24 < -100
              THEN 15 ELSE 0
        w8 == IF txs > 500 /\ 86400000 \div txs < 5000 THEN 20 ELSE 0
        sum == w1 + w2 + w3 + w4 + w5 + w6 + w7 + w8
    IN /\ detection.result.score \in 0..100
       /\ detection.result.outcome = "analysed" =>
              detection.result.score = IF sum > 100 THEN 100 ELSE sum

\* C20 witness: an analysed token whose signals add up to more than 100
\* (organic, quality, bundle, skew and pump signals: 140) scored 100.
C20_Witness ==
    /\ detection.result.outcome = "analysed"
    /\ detection.data.profile.present
    /\ detection.data.profile.organicScore = 15
    /\ detection.data.profile.qualityScore = 20
    /\ detection.data.txns = [buys |-> 1100, sells |-> 100]
    /\ detection.data.market.volume24h = 2000000
    /\ detection.data.pairCreatedAt = detection.nowMs - 86400000 + 1
    /\ detection.result.score = 100

\* C13: when the position has a stop-loss percent s and the loss has reached
\* it (profitPercent <= -s), shouldSellPosition says sell, whatever the
\* strategy type, the profit target, the RSI and the price change.
C13_StopLossSells ==
    ( /\ sellCheck.done
      /\ sellCheck.position.strategyStopLoss.present
      /\ sellCheck.position.strategyStopLoss.value > 0
      /\ sellCheck.position.entryPriceSOL > 0
      /\ (sellCheck.currentPrice - sellCheck.position.entryPriceSOL) * 100
             <= -sellCheck.position.strategyStopLoss.value
                    * sellCheck.position.entryPriceSOL )
    => sellCheck.result.shouldSell

\* C13 witness: a grid position with a 10% stop-loss and no other sell
\* signal, exactly 10% down, is sold by the stop-loss.
C13_Witness ==
    /\ sellCheck.done
    /\ sellCheck.position.strategyType = "GRID_TRADING"
    /\ sellCheck.position.strategyStopLoss = [present |-> TRUE, value |-> 10]
    /\ sellCheck.position.strategyProfitTarget = NotSet
    /\ sellCheck.position.entryPriceSOL = 100
    /\ sellCheck.currentPrice = 90
    /\ sellCheck.result.shouldSell
    /\ sellCheck.result.reason = "stop_loss"

\* C15: once a strategy is committed, getLatestStrategy returns it until the
\* next successful commit, whatever time has passed and whatever saves have
\* failed since.
C15_CommittedStrategyReturned ==
    (latest.asked /\ latest.committed # NoStrategy)
        => latest.result = latest.committed

CanStep(i) ==
    ENABLED (RunSetup(i) \/ RunAnalyze(i) \/ RunBuy(i) \/ RunRecord(i)
                 \/ RunStatus(i))

C17_LiquidityReserveKept ==
    (last.op = "trade" /\ last.stage = "opened")
        => solBalance * 10 >= last.total - last.fee

\* C21: when no token data can be obtained or the analysis throws,
\* detectBundleActivity returns a result (the error stays inside) that is
\* not suspicious, with score 0, severity warning and at least one reason.
C21_FailsOpen ==
    detection.result.outcome \in {"insufficient", "failed"}
        => /\ detection.result.isSuspicious = FALSE
           /\ detection.result.score = 0
           /\ detection.result.severity = "warning"
           /\ detection.result.reasons # <<>>

\* the analysis threw and the catch block answered
C21_Witness == detection.result.outcome = "failed"

\* the bands are valid and the price is outside the 15% window around the
\* lower band
OutsideLowerWindow(token) ==
    /\ token.bollingerLower >= MIN_VALID_PRICE
    /\ token.bollingerUpper > token.bollingerLower
    /\ \/ token.priceSOL * 100 < token.bollingerLower * 85
       \/ token.priceSOL * 100 > token.bollingerLower * 115

\* C22 as claimed: with valid bands and the price outside the window around
\* the lower band, evaluateMeanReversion returns no BUY, whatever the RSI.
C22_NoBuyOutsideWindow ==
    (evaluation.done /\ OutsideLowerWindow(evaluation.token))
        => evaluation.meanReversion.action # "BUY"

\* C22: with valid bands, a current price of at least MIN_VALID_PRICE and
\* the price outside the window around the lower band, evaluateMeanReversion
\* returns no BUY, whatever the RSI.
C22_NoBuyOutsideWindowValidPrice ==
    (/\ evaluation.done
     /\ OutsideLowerWindow(evaluation.token)
     /\ evaluation.token.priceSOL >= MIN_VALID_PRICE)
        => evaluation.meanReversion.action # "BUY"

\* RSI 20 with the price 30% above the lower band, no position: no signal
C22_Witness ==
    /\ evaluation.done
    /\ evaluation.config.meanReversionEnabled
    /\ ~evaluation.position.present
    /\ evaluation.token.rsi = 20
    /\ evaluation.token.bollingerLower = 100
    /\ evaluation.token.bollingerUpper = 200
    /\ evaluation.token.priceSOL = 130
    /\ evaluation.meanReversion = NoSignal

\* C23: evaluateMomentumBreakout returns BUY only with no open position, a 1h
\* change at or above the configured threshold, a 24h volume at or above
\* 50,000 times the configured multiplier, a 24h change below the 1h change
\* and a 24h change below 30%.
C23_MomentumBuyOnlyIf ==
    (evaluation.done /\ evaluation.momentum.action = "BUY")
        => /\ ~evaluation.position.present
           /\ evaluation.token.priceChange1h
                  >= evaluation.config.momentumBreakoutPriceChangePercent
           /\ evaluation.token.volume24h
                  >= 50000 * evaluation.config.momentumBreakoutVolumeMultiplier
           /\ evaluation.token.priceChange24h
                  < evaluation.token.priceChange1h
           /\ evaluation.token.priceChange24h < 30

\* a breakout bought with the token up 29% in 24 hours
C23_Witness ==
    /\ evaluation.done
    /\ evaluation.momentum.action = "BUY"
    /\ evaluation.token.priceChange24h = 29

\* one of the three sell triggers of an open momentum position holds
MomentumSellTrigger ==
    \/ evaluation.position.lastCheckProfitPercent
           >= evaluation.config.momentumBreakoutProfitTargetPercent
    \/ /\ evaluation.position.peakProfitPercent >= 15
       /\ 2 * evaluation.position.lastCheckProfitPercent
              < evaluation.position.peakProfitPercent
    \/ evaluation.token.priceChange1h < -5

\* the answer about an open momentum position is SELL exactly when a trigger
\* holds, and null otherwise
MomentumSellExactly ==
    /\ evaluation.momentum.action = "SELL" <=> MomentumSellTrigger
    /\ ~MomentumSellTrigger => evaluation.momentum = NoSignal

\* C24 as claimed: for an open MOMENTUM_BREAKOUT position
\* evaluateMomentumBreakout returns SELL exactly when the profit target is
\* reached, or the peak was at least 15% and the profit is under half the
\* peak, or the 1h change is under -5%; otherwise it returns no signal.
C24_MomentumSellTriggers ==
    (/\ evaluation.done
     /\ evaluation.position.present
     /\ evaluation.position.strategyType = "MOMENTUM_BREAKOUT")
        => MomentumSellExactly

\* C24: the same, for a configuration with momentum breakout enabled.
C24_MomentumSellTriggersEnabled ==
    (/\ evaluation.done
     /\ evaluation.config.momentumBreakoutEnabled
     /\ evaluation.position.present
     /\ evaluation.position.strategyType = "MOMENTUM_BREAKOUT")
        => MomentumSellExactly

\* a position that peaked at 30% and stands at 14%, short of the target and
\* with no reversal, is sold by the trailing stop
C24_Witness ==
    /\ evaluation.done
    /\ evaluation.position.strategyType = "MOMENTUM_BREAKOUT"
    /\ evaluation.position.peakProfitPercent = 30
    /\ evaluation.position.lastCheckProfitPercent = 14
    /\ evaluation.token.priceChange1h = 0
    /\ evaluation.momentum.action = "SELL"

\* C26: evaluateGridTrading returns a signal only if |1h change| < 5% and
\* |24h change| < 15%; a BUY only with no open position and a 1h change
\* strictly between -8% and -2%; a SELL only for an open GRID_TRADING
\* position whose profit has reached the configured price gap.
C26_GridSignalOnlyIf ==
    evaluation.done =>
        /\ evaluation.grid # NoSignal =>
               /\ evaluation.token.priceChange1h < 5
               /\ evaluation.token.priceChange1h > -5
               /\ evaluation.token.priceChange24h < 15
               /\ evaluation.token.priceChange24h > -15
        /\ evaluation.grid.action = "BUY" =>
               /\ ~evaluation.position.present
               /\ evaluation.token.priceChange1h > -8
               /\ evaluation.token.priceChange1h < -2
        /\ evaluation.grid.action = "SELL" =>
               /\ evaluation.position.present
               /\ evaluation.position.strategyType = "GRID_TRADING"
               /\ evaluation.position.lastCheckProfitPercent
                      >= evaluation.config.gridTradingPriceGapPercent

\* a grid entry on a 3% dip in a ranging market
C26_Witness ==
    /\ evaluation.done
    /\ evaluation.grid.action = "BUY"
    /\ evaluation.token.priceChange1h = -3

\* the signals the three strategies produced with the given action
Produced(action) ==
    {signal \in {evaluation.meanReversion, evaluation.momentum,
                 evaluation.grid} : signal.action = action}

\* the signal returned is one of those produced with the action, and none of
\* them has a higher confidence
BestOf(action) ==
    /\ evaluation.best \in Produced(action)
    /\ \A signal \in Produced(action) :
           signal.confidence.num * evaluation.best.confidence.den
               <= evaluation.best.confidence.num * signal.confidence.den

\* C25: evaluateAllStrategies returns, with a position open, the SELL signal
\* of highest confidence if a strategy produced a SELL; with no position
\* open, the BUY signal of highest confidence if a strategy produced a BUY;
\* and null when no strategy produced a signal.
C25_BestSignal ==
    evaluation.done =>
        /\ (evaluation.position.present /\ Produced("SELL") # {})
               => BestOf("SELL")
        /\ (~evaluation.position.present /\ Produced("BUY") # {})
               => BestOf("BUY")
        /\ (Produced("SELL") \cup Produced("BUY") = {})
               => evaluation.best = NoSignal

\* mean reversion at resistance (confidence 85) and the grid (80) both want
\* to sell an open grid position: mean reversion's signal is returned
C25_Witness ==
    /\ evaluation.done
    /\ evaluation.meanReversion.action = "SELL"
    /\ evaluation.grid.action = "SELL"
    /\ Higher(evaluation.meanReversion, evaluation.grid)
    /\ evaluation.best = evaluation.meanReversion

\* the filter thresholds of a strategy are all at least those of another
AsStrictAs(strategy, reference) ==
    /\ strategy.minConfidenceThreshold >= reference.minConfidenceThreshold
    /\ strategy.minVolumeUSD >= reference.minVolumeUSD
    /\ strategy.minLiquidityUSD >= reference.minLiquidityUSD
    /\ strategy.minOrganicScore >= reference.minOrganicScore
    /\ strategy.minQualityScore >= reference.minQualityScore
    /\ strategy.minTransactions24h >= reference.minTransactions24h
    /\ strategy.minPotentialPercent >= reference.minPotentialPercent

\* C27: a strategy generated at a confidence under 85 has, whatever the
\* sentiment, every filter threshold at least as strict as the neutral
\* default's and a per-trade budget no larger than the neutral default's.
C27_PermissiveOnlyWhenConfident ==
    (generation.done /\ generation.confidence < 85) =>
        /\ AsStrictAs(generation.strategy, SentimentCase("neutral"))
        /\ generation.strategy.budgetPerTrade <=
               SentimentCase("neutral").budgetPerTrade

Registered(objects, states, project) == objects[project][states[project]]

C30_BoughtTokenTracked ==
    [][buyOrders' = buyOrders + 1 =>
          \A mint \in held' \ held :
              /\ \E p \in positions' : p.tokenMint = mint
              /\ mint \in DOMAIN activePositions'
      ]_vars

====
